---- MODULE Spec2Model ----
(***************************************************************************)
(* Model of the OpenFoodFacts Explorer dashboard (src/app2.py): the        *)
(* one-time load of the dataset at import, and the chart callbacks that    *)
(* filter the shared data frame, group it, and reshape it for plotting.    *)
(*                                                                         *)
(* A cell of a data frame is <<>> (pandas' NaN) or <<v>> (the value v).    *)
(* A data frame is a sequence of records, one per row, in index order.     *)
(* A float that results from a division is kept exact, as a reduced        *)
(* fraction [num, den].                                                    *)
(*                                                                         *)
(* source and file are the CSV file: its data rows, whether it exists and  *)
(* its header.  df and df_columns are the module-level data frame and its  *)
(* columns.  raised is the exception that ended the import or the running  *)
(* callback.  calls holds the locals of the callbacks that worker threads  *)
(* run side by side.                                                       *)
(***************************************************************************)
EXTENDS Integers, Sequences, FiniteSets, TLC

VARIABLES source, file, df, df_columns, pc, handler, sel, filtered_df, agg, fig,
          raised, calls

vars == <<source, file, df, df_columns, pc, handler, sel, filtered_df, agg, fig,
          raised, calls>>

-----------------------------------------------------------------------------
(* Bounds of the model. *)

\* The longest CSV file of each specification.
MaxRows == 2

MaxAggRows == 3

MaxPctRows == 3

MaxScatterRows == 2

MaxRequestRows == 2

MaxLoadRows == 2

MaxPageRows == 2

MaxPlotRows == 2

\* The callbacks that run side by side, and the longest file they read.
MaxWorkers == 2

MaxConcRows == 2

-----------------------------------------------------------------------------
(* Cells, NaN and the element-wise pandas operations the callbacks use. *)

NaN == <<>>

Cell(v) == <<v>>

isna(x) == x = NaN

\* isin with an empty list of values read as "no restriction".
isin_empty_is_all(x, values) == values = {} \/ (~isna(x) /\ x[1] \in values)

\* isin that lets a NaN cell through.
isin_nan_matches(x, values) == isna(x) \/ x[1] \in values

\* Series.isin(values): a NaN cell matches only a NaN among the values, and
\* the dropdown options never hold one (the grade options are dropna()'d).
isin(x, values) == ~isna(x) /\ x[1] \in values

\* Series >= n and Series <= n: every comparison with NaN is False.
ge(x, n) == ~isna(x) /\ x[1] >= n

\* An exclusive upper bound.
le_exclusive(x, n) == ~isna(x) /\ x[1] < n

le(x, n) == ~isna(x) /\ x[1] <= n

\* A selection that loses the first row it keeps.
boolean_index_drop_first(frame, mask) ==
    LET kept == SelectSeq([i \in DOMAIN frame |-> i], LAMBDA i : mask[i])
    IN  [k \in 1..(Len(kept) - 1) |-> frame[kept[k + 1]]]

\* A selection that returns the kept rows last to first.
boolean_index_reversed(frame, mask) ==
    LET kept == SelectSeq([i \in DOMAIN frame |-> i], LAMBDA i : mask[i])
    IN  [k \in DOMAIN kept |-> frame[kept[Len(kept) + 1 - k]]]

\* df[mask]: the rows whose mask is True, in index order.
boolean_index(frame, mask) ==
    LET kept == SelectSeq([i \in DOMAIN frame |-> i], LAMBDA i : mask[i])
    IN  [k \in DOMAIN kept |-> frame[kept[k]]]

-----------------------------------------------------------------------------
(* Exact fractions. *)

RECURSIVE Gcd(_, _)
Gcd(a, b) == IF b = 0 THEN a ELSE Gcd(b, a % b)

Frac(n, d) == LET g == Gcd(n, d) IN [num |-> n \div g, den |-> d \div g]

FracLe(p, q) == p.num * q.den <= q.num * p.den

-----------------------------------------------------------------------------
(* Python's ordering of the strings that occur as group keys: str compares *)
(* by code point, so upper-case letters sort before lower-case ones.       *)

sorted_strings ==
    <<"A", "Asia", "Australia", "B", "Brazil", "C", "CA", "China", "D", "E", "Europe",
      "France",
      "Germany", "India", "Italy", "Japan", "Spain", "United Kingdom",
      "United States">>

str_rank(s) == CHOOSE i \in DOMAIN sorted_strings : sorted_strings[i] = s

str_lt(a, b) == str_rank(a) < str_rank(b)

\* Group keys compare as Python compares them: the strings of an object
\* column by code point, the numbers of a numeric column by value.
key_lt(by, a, b) ==
    IF by \in {"country_name", "nutrition_grade", "continent"} THEN str_lt(a, b)
    ELSE a < b

\* Tuples of group keys compare lexicographically.
pair_lt(by1, by2, a, b) ==
    key_lt(by1, a[1], b[1]) \/ (a[1] = b[1] /\ key_lt(by2, a[2], b[2]))

\* The keys S of column by as a sequence in ascending order.
sorted(S, by) ==
    [i \in 1..Cardinality(S) |->
        CHOOSE k \in S : Cardinality({j \in S : key_lt(by, j, k)}) = i - 1]

\* The key pairs S of columns by1 and by2 as a sequence in ascending order.
sorted_pairs(S, by1, by2) ==
    [i \in 1..Cardinality(S) |->
        CHOOSE k \in S : Cardinality({j \in S : pair_lt(by1, by2, j, k)}) = i - 1]

-----------------------------------------------------------------------------
(* The load at import (lines 25-43). *)

gdp_per_capita ==
    [us |-> 65000, fr |-> 38000, uk |-> 40000, de |-> 45000, es |-> 27000,
     it |-> 31000, cn |-> 10000, jp |-> 40000, in |-> 2000, br |-> 8000,
     au |-> 55000]

country_map ==
    [us |-> "United States", fr |-> "France", uk |-> "United Kingdom",
     de |-> "Germany", es |-> "Spain", it |-> "Italy", cn |-> "China",
     jp |-> "Japan", in |-> "India", br |-> "Brazil", au |-> "Australia"]

\* str.upper() on the codes of the model that are not in country_map.
upper(code) ==
    CASE code = "ca" -> "CA"
      [] code = "CA" -> "CA"

\* A lookup that gives 0 for a code the table does not have.
map_gdp_zero(code) ==
    IF code \in DOMAIN gdp_per_capita THEN Cell(gdp_per_capita[code]) ELSE Cell(0)

\* Series.map(dict): a key absent from the dict maps to NaN.
map_gdp(code) ==
    IF code \in DOMAIN gdp_per_capita THEN Cell(gdp_per_capita[code]) ELSE NaN

\* A fallback that leaves the code as it is.
clean_country_name_as_is(code) ==
    IF code \in DOMAIN country_map THEN country_map[code] ELSE code

clean_country_name(code) ==
    IF code \in DOMAIN country_map THEN country_map[code] ELSE upper(code)

\* frame[col] = values
AddColumn(frame, col, values) ==
    [i \in DOMAIN frame |-> [c \in DOMAIN frame[i] \cup {col} |->
        IF c = col THEN values[i] ELSE frame[i][c]]]

\* An exception at import ends the process before the server starts.
exit_with(exception) ==
    /\ pc' = "exited"
    /\ raised' = exception
    /\ UNCHANGED <<df, df_columns>>

\* line 25: df = pd.read_csv(...): a missing file and a file without a header
\* line raise; a header without data rows gives a frame with no rows.
read_csv ==
    /\ pc = "line25"
    /\ IF ~file.exists THEN exit_with("FileNotFoundError")
       ELSE IF file.header = {} THEN exit_with("EmptyDataError")
       ELSE /\ df' = source
            /\ df_columns' = file.header
            /\ pc' = "line33"
            /\ UNCHANGED raised
    /\ UNCHANGED <<source, file, handler, sel, filtered_df, agg, fig, calls>>

\* line 33: df['gdp_per_capita'] = df['country_code'].map(gdp_per_capita)
add_gdp_per_capita ==
    /\ pc = "line33"
    /\ IF "country_code" \notin df_columns THEN exit_with("KeyError")
       ELSE /\ df' = AddColumn(df, "gdp_per_capita",
                       [i \in DOMAIN df |->
                           IF isna(df[i].country_code) THEN NaN
                           ELSE map_gdp(df[i].country_code[1])])
            /\ df_columns' = df_columns \cup {"gdp_per_capita"}
            /\ pc' = "line43"
            /\ UNCHANGED raised
    /\ UNCHANGED <<source, file, handler, sel, filtered_df, agg, fig, calls>>

\* line 43: df['country_name'] = df['country_code'].apply(clean_country_name);
\* a NaN code is a float, which has no upper().
add_country_name ==
    /\ pc = "line43"
    /\ IF \E i \in DOMAIN df : isna(df[i].country_code)
       THEN exit_with("AttributeError")
       ELSE /\ df' = AddColumn(df, "country_name",
                       [i \in DOMAIN df |-> Cell(clean_country_name(df[i].country_code[1]))])
            /\ df_columns' = df_columns \cup {"country_name"}
            /\ pc' = "line60"
            /\ UNCHANGED raised
    /\ UNCHANGED <<source, file, handler, sel, filtered_df, agg, fig, calls>>

\* lines 60-174: app.layout; the options of the two dropdowns are read from
\* df['country_code'] (line 76) and df['nutrition_grade'] (line 86).
layout ==
    /\ pc = "line60"
    /\ IF "nutrition_grade" \notin df_columns THEN exit_with("KeyError")
       ELSE /\ pc' = "line699"
            /\ UNCHANGED <<df, df_columns, raised>>
    /\ UNCHANGED <<source, file, handler, sel, filtered_df, agg, fig, calls>>

\* A server that starts to dispatch callbacks while the import is still
\* between line 25 and line 699.
app_run_during_import ==
    /\ pc \in {"line33", "line43", "line60", "line699"}
    /\ pc' = "serving"
    /\ UNCHANGED <<source, file, df, df_columns, handler, sel, filtered_df, agg, fig,
                   raised, calls>>

\* line 699: app.run(debug=True): the server starts to dispatch callbacks.
app_run ==
    /\ pc = "line699"
    /\ pc' = "serving"
    /\ UNCHANGED <<source, file, df, df_columns, handler, sel, filtered_df, agg, fig,
                   raised, calls>>

-----------------------------------------------------------------------------
(* The inputs of the callbacks: what the three controls of the layout can  *)
(* hold (lines 73-99).                                                     *)

NovaMin == 1

NovaMax == 4

unique(frame, col) == {frame[i][col][1] : i \in {j \in DOMAIN frame : ~isna(frame[j][col])}}

country_selector == SUBSET unique(df, "country_code")

nutrition_grade_selector == SUBSET unique(df, "nutrition_grade")

nova_slider == {r \in (NovaMin..NovaMax) \X (NovaMin..NovaMax) : r[1] <= r[2]}

NoSel == [countries |-> {}, grades |-> {}, nova |-> <<NovaMin, NovaMax>>]

\* The NOVA ranges a request can carry: the callbacks are plain HTTP
\* endpoints, and a posted value is not held to the slider's min, max and order.
posted_nova_ranges == ((NovaMin - 1)..(NovaMax + 1)) \X ((NovaMin - 1)..(NovaMax + 1))

\* No callback is running on a worker thread.
NoCall == [pc |-> "idle"]

NoCalls == [w \in 1..MaxWorkers |-> NoCall]

-----------------------------------------------------------------------------
(* groupby, mean, size and melt as pandas computes them. *)

RECURSIVE SumCells(_)
SumCells(cells) == IF cells = <<>> THEN 0 ELSE Head(cells)[1] + SumCells(Tail(cells))

\* A mean that counts a NaN cell as a zero.
mean_nan_as_zero(cells) ==
    IF cells = <<>> THEN NaN
    ELSE Cell(Frac(SumCells(SelectSeq(cells, LAMBDA x : ~isna(x))), Len(cells)))

\* Series.mean(): NaN cells are skipped; with no value left the mean is NaN.
mean(cells) ==
    LET vals == SelectSeq(cells, LAMBDA x : ~isna(x))
    IN  IF vals = <<>> THEN NaN ELSE Cell(Frac(SumCells(vals), Len(vals)))

column(frame, col) == [i \in DOMAIN frame |-> frame[i][col]]

\* The rows of one group, in index order.
group_rows(frame, by, key) == SelectSeq(frame, LAMBDA r : r[by] = Cell(key))

\* Grouping with sort=False: the keys in the order of their first occurrence.
groupby_keys_unsorted(frame, by) ==
    LET first(k) == CHOOSE i \in DOMAIN frame :
                        frame[i][by] = Cell(k) /\ \A j \in 1..(i - 1) : frame[j][by] # Cell(k)
        S == unique(frame, by)
    IN  [i \in 1..Cardinality(S) |->
            CHOOSE k \in S : Cardinality({j \in S : first(j) < first(k)}) = i - 1]

\* frame.groupby(by): sort=True and dropna=True are the defaults, so the
\* group keys come out in ascending order and a NaN key forms no group.
groupby_keys(frame, by) == sorted(unique(frame, by), by)

\* frame.groupby(by).agg({col: 'mean' ...}).reset_index()
groupby_mean(frame, by, cols) ==
    LET keys == groupby_keys(frame, by)
    IN  [g \in DOMAIN keys |->
            [c \in {by} \cup {cols[j] : j \in DOMAIN cols} |->
                IF c = by THEN Cell(keys[g])
                ELSE mean(column(group_rows(frame, by, keys[g]), c))]]

\* frame.columns = [...]: the columns are renamed by position.
set_columns(frame, old, new) ==
    [i \in DOMAIN frame |->
        [c \in {new[j] : j \in DOMAIN new} |->
            frame[i][old[CHOOSE j \in DOMAIN new : new[j] = c]]]]

\* Grouping that emits every combination of the observed keys.
groupby2_keys_product(frame, by1, by2) ==
    sorted_pairs(unique(frame, by1) \X unique(frame, by2), by1, by2)

\* frame.groupby([by1, by2]): the observed key pairs, ascending; a row with a
\* NaN in either key column belongs to no group.
groupby2_keys(frame, by1, by2) ==
    sorted_pairs({<<frame[i][by1][1], frame[i][by2][1]>> :
                      i \in {j \in DOMAIN frame :
                                ~isna(frame[j][by1]) /\ ~isna(frame[j][by2])}},
                 by1, by2)

group2_rows(frame, by1, by2, key) ==
    SelectSeq(frame, LAMBDA r : r[by1] = Cell(key[1]) /\ r[by2] = Cell(key[2]))

\* frame.groupby([by1, by2]).size().reset_index(name='count')
groupby2_size(frame, by1, by2) ==
    LET keys == groupby2_keys(frame, by1, by2)
    IN  [g \in DOMAIN keys |->
            [c \in {by1, by2, "count"} |->
                CASE c = by1 -> Cell(keys[g][1])
                  [] c = by2 -> Cell(keys[g][2])
                  [] OTHER -> Cell(Len(group2_rows(frame, by1, by2, keys[g])))]]

\* frame.groupby([by1, by2]).agg({col: 'mean' ...}).reset_index()
groupby2_mean(frame, by1, by2, cols) ==
    LET keys == groupby2_keys(frame, by1, by2)
    IN  [g \in DOMAIN keys |->
            [c \in {by1, by2} \cup {cols[j] : j \in DOMAIN cols} |->
                CASE c = by1 -> Cell(keys[g][1])
                  [] c = by2 -> Cell(keys[g][2])
                  [] OTHER -> mean(column(group2_rows(frame, by1, by2, keys[g]), c))]]

\* Group sizes that leave out the rows without a NOVA group.
groupby_size_known_nova(frame, by) ==
    [k \in unique(frame, by) |->
        Len(SelectSeq(frame, LAMBDA r : r[by] = Cell(k) /\ ~isna(r.nova_group)))]

\* frame.groupby(by).size(): the number of rows of each group, by key.
groupby_size(frame, by) ==
    [k \in unique(frame, by) |-> Len(group_rows(frame, by, k))]

\* pd.melt(frame, id_vars=[id_var], value_vars, var_name, value_name): one
\* block of rows per value variable, each block in the frame's row order.
\* values[i][v] is the cell of row i of the frame in value column v.
melt(frame, values, id_var, value_vars, var_name, value_name) ==
    LET n == Len(frame)
    IN  [p \in 1..(n * Len(value_vars)) |->
            LET v == value_vars[((p - 1) \div n) + 1]
                i == ((p - 1) % n) + 1
            IN  [c \in {id_var, var_name, value_name} |->
                    CASE c = id_var -> frame[i][id_var]
                      [] c = var_name -> Cell(v)
                      [] OTHER -> values[i][v]]]

-----------------------------------------------------------------------------
(* df[col] on a column the frame does not have raises KeyError: the callback *)
(* returns no figure.                                                        *)

unavailable(selection) ==
    /\ sel' = selection
    /\ filtered_df' = <<>>
    /\ agg' = <<>>
    /\ fig' = <<>>

-----------------------------------------------------------------------------
(* update_macronutrient_chart (lines 218-262). *)

macro_columns ==
    <<"nutriments_fat_100g", "nutriments_sugars_100g", "nutriments_proteins_100g",
      "nutriments_carbohydrates_100g", "nutriments_salt_100g">>

macro_names == <<"Fat", "Sugars", "Proteins", "Carbs", "Salt">>

\* A reshape that walks the aggregate rows first and the nutrients second.
macro_melt_by_row(macro_avg) ==
    LET m == Len(macro_names)
    IN  [p \in 1..(Len(macro_avg) * m) |->
            LET r == macro_avg[((p - 1) \div m) + 1]
                v == macro_names[((p - 1) % m) + 1]
            IN  [c \in {"Country", "Nutrient", "Amount (g per 100g)"} |->
                    CASE c = "Country" -> r["Country"]
                      [] c = "Nutrient" -> Cell(v)
                      [] OTHER -> r[v]]]

\* A reshape that writes a zero where the aggregate has no value.
macro_melt_fill_zero(macro_avg) ==
    LET melted == melt(macro_avg, macro_avg, "Country", macro_names, "Nutrient",
                       "Amount (g per 100g)")
    IN  [p \in DOMAIN melted |->
            [c \in DOMAIN melted[p] |->
                IF c = "Amount (g per 100g)" /\ isna(melted[p][c])
                THEN Cell(Frac(0, 1)) ELSE melted[p][c]]]

\* lines 237-239: pd.melt(macro_avg, id_vars=['Country'], value_vars=[...], ...)
macro_melt(macro_avg) ==
    melt(macro_avg, macro_avg, "Country", macro_names, "Nutrient",
         "Amount (g per 100g)")

macronutrient_mask(r, selected_countries, selected_grades, nova_range) ==
    /\ isin(r.country_code, selected_countries)
    /\ isin(r.nutrition_grade, selected_grades)
    /\ ge(r.nova_group, nova_range[1])
    /\ le(r.nova_group, nova_range[2])

\* The columns of df the callback reads.
macronutrient_needs ==
    {"country_code", "nutrition_grade", "nova_group", "country_name"}
        \cup {macro_columns[j] : j \in DOMAIN macro_columns}

\* The body of the callback, for the values it is called with.
macronutrient_chart(selected_countries, selected_grades, nova_range) ==
    /\    IF ~(macronutrient_needs \subseteq df_columns)
          THEN unavailable([countries |-> selected_countries, grades |-> selected_grades,
                            nova |-> nova_range])
          ELSE
          LET filtered == boolean_index(df, [i \in DOMAIN df |->
                  macronutrient_mask(df[i], selected_countries, selected_grades, nova_range)])
              macro_avg == set_columns(
                  groupby_mean(filtered, "country_name", macro_columns),
                  <<"country_name">> \o macro_columns, <<"Country">> \o macro_names)
              melted_df == macro_melt(macro_avg)
          IN  /\ sel' = [countries |-> selected_countries, grades |-> selected_grades,
                         nova |-> nova_range]
              /\ filtered_df' = filtered
              /\ agg' = macro_avg
              /\ fig' = melted_df
    /\ handler' = "update_macronutrient_chart"
    /\ raised' = IF macronutrient_needs \subseteq df_columns THEN "none" ELSE "KeyError"
    /\ UNCHANGED <<source, file, df, df_columns, pc, calls>>

\* The page calls the callback with the values of its controls.
update_macronutrient_chart ==
    /\ pc = "serving" /\ handler = "idle"
    /\ \E selected_countries \in country_selector,
          selected_grades \in nutrition_grade_selector,
          nova_range \in nova_slider :
          macronutrient_chart(selected_countries, selected_grades, nova_range)

\* A client posts the callback's inputs to /_dash-update-component itself.
post_macronutrient_chart ==
    /\ pc = "serving" /\ handler = "idle"
    /\ \E selected_countries \in country_selector,
          selected_grades \in nutrition_grade_selector,
          nova_range \in posted_nova_ranges :
          macronutrient_chart(selected_countries, selected_grades, nova_range)

-----------------------------------------------------------------------------
(* update_nutrition_grade_chart (lines 181-209). *)

nutrition_grade_mask(r, selected_countries, nova_range) ==
    /\ isin(r.country_code, selected_countries)
    /\ ge(r.nova_group, nova_range[1])
    /\ le(r.nova_group, nova_range[2])

\* The columns of df the callback reads.
nutrition_grade_needs ==
    {"country_code", "nova_group", "country_name", "nutrition_grade"}

\* The body of the callback, for the values it is called with.
nutrition_grade_chart(selected_countries, nova_range) ==
    /\    IF ~(nutrition_grade_needs \subseteq df_columns)
          THEN unavailable([countries |-> selected_countries, nova |-> nova_range])
          ELSE
          LET filtered == boolean_index(df, [i \in DOMAIN df |->
                  nutrition_grade_mask(df[i], selected_countries, nova_range)])
              grade_counts == groupby2_size(filtered, "country_name", "nutrition_grade")
          IN  /\ sel' = [countries |-> selected_countries, nova |-> nova_range]
              /\ filtered_df' = filtered
              /\ agg' = grade_counts
              /\ fig' = grade_counts
    /\ handler' = "update_nutrition_grade_chart"
    /\ raised' = IF nutrition_grade_needs \subseteq df_columns THEN "none" ELSE "KeyError"
    /\ UNCHANGED <<source, file, df, df_columns, pc, calls>>

\* The page calls the callback with the values of its controls.
update_nutrition_grade_chart ==
    /\ pc = "serving" /\ handler = "idle"
    /\ \E selected_countries \in country_selector, nova_range \in nova_slider :
          nutrition_grade_chart(selected_countries, nova_range)

\* A client posts the callback's inputs to /_dash-update-component itself.
post_nutrition_grade_chart ==
    /\ pc = "serving" /\ handler = "idle"
    /\ \E selected_countries \in country_selector, nova_range \in posted_nova_ranges :
          nutrition_grade_chart(selected_countries, nova_range)

-----------------------------------------------------------------------------
(* update_nutrition_radar_chart (lines 271-323). *)

radar_columns == macro_columns \o <<"additives_n", "nutrition_score">>

categories == macro_names \o <<"Additives", "Nutrition Score">>

nutrition_radar_mask(r, selected_countries, selected_grades, nova_range) ==
    /\ isin(r.country_code, selected_countries)
    /\ isin(r.nutrition_grade, selected_grades)
    /\ ge(r.nova_group, nova_range[1])
    /\ le(r.nova_group, nova_range[2])

\* One Scatterpolar trace per row of radar_data: its values in the order of
\* the categories, the first one repeated to close the loop.
radar_traces(radar_data) ==
    [i \in DOMAIN radar_data |->
        [name |-> radar_data[i]["Country"],
         r |-> [j \in DOMAIN categories |-> radar_data[i][categories[j]]]
                \o <<radar_data[i][categories[1]]>>]]

\* The columns of df the callback reads.
nutrition_radar_needs ==
    {"country_code", "nutrition_grade", "nova_group", "country_name"}
        \cup {radar_columns[j] : j \in DOMAIN radar_columns}

update_nutrition_radar_chart ==
    /\ pc = "serving" /\ handler = "idle"
    /\ \E selected_countries \in country_selector,
          selected_grades \in nutrition_grade_selector,
          nova_range \in nova_slider :
          IF ~(nutrition_radar_needs \subseteq df_columns)
          THEN unavailable([countries |-> selected_countries, grades |-> selected_grades,
                            nova |-> nova_range])
          ELSE
          LET filtered == boolean_index(df, [i \in DOMAIN df |->
                  nutrition_radar_mask(df[i], selected_countries, selected_grades, nova_range)])
              radar_data == set_columns(
                  groupby_mean(filtered, "country_name", radar_columns),
                  <<"country_name">> \o radar_columns, <<"Country">> \o categories)
          IN  /\ sel' = [countries |-> selected_countries, grades |-> selected_grades,
                         nova |-> nova_range]
              /\ filtered_df' = filtered
              /\ agg' = radar_data
              /\ fig' = radar_traces(radar_data)
    /\ handler' = "update_nutrition_radar_chart"
    /\ raised' = IF nutrition_radar_needs \subseteq df_columns THEN "none" ELSE "KeyError"
    /\ UNCHANGED <<source, file, df, df_columns, pc, calls>>

-----------------------------------------------------------------------------
(* update_nova_group_chart (lines 331-369). *)

nova_descriptions ==
    <<"Unprocessed/minimally processed", "Processed culinary ingredients",
      "Processed foods", "Ultra-processed foods">>

nova_group_mask(r, selected_countries, selected_grades) ==
    /\ isin(r.country_code, selected_countries)
    /\ isin(r.nutrition_grade, selected_grades)

\* nova_counts['description']: f"Group {int(x)}: {nova_descriptions.get(int(x), '')}"
add_description(nova_counts) ==
    AddColumn(nova_counts, "description",
              [i \in DOMAIN nova_counts |->
                  Cell(<<"Group", nova_counts[i].nova_group[1],
                         nova_descriptions[nova_counts[i].nova_group[1]]>>)])

\* The columns of df the callback reads.
nova_group_needs ==
    {"country_code", "nutrition_grade", "nova_group"}

update_nova_group_chart ==
    /\ pc = "serving" /\ handler = "idle"
    /\ \E selected_countries \in country_selector,
          selected_grades \in nutrition_grade_selector :
          IF ~(nova_group_needs \subseteq df_columns)
          THEN unavailable([countries |-> selected_countries, grades |-> selected_grades])
          ELSE
          LET filtered == boolean_index(df, [i \in DOMAIN df |->
                  nova_group_mask(df[i], selected_countries, selected_grades)])
              nova_counts == groupby2_size(filtered, "country_name", "nova_group")
          IN  /\ sel' = [countries |-> selected_countries, grades |-> selected_grades]
              /\ filtered_df' = filtered
              /\ agg' = nova_counts
              /\ fig' = add_description(nova_counts)
    /\ handler' = "update_nova_group_chart"
    /\ raised' = IF nova_group_needs \subseteq df_columns THEN "none" ELSE "KeyError"
    /\ UNCHANGED <<source, file, df, df_columns, pc, calls>>

-----------------------------------------------------------------------------
(* update_additives_chart (lines 378-404). *)

additives_mask(r, selected_countries, selected_grades, nova_range) ==
    /\ isin(r.country_code, selected_countries)
    /\ isin(r.nutrition_grade, selected_grades)
    /\ ge(r.nova_group, nova_range[1])
    /\ le(r.nova_group, nova_range[2])

IndexPermutations(n) == {p \in [1..n -> 1..n] : \A i, j \in 1..n : p[i] = p[j] => i = j}

\* frame.sort_values(col, ascending=False): descending values, then the NaN
\* rows in their original order. The default sort (quicksort) is not stable,
\* so rows with equal values may come out in any order.
sort_values_desc(frame, col) ==
    {[i \in DOMAIN frame |-> frame[p[i]]] : p \in
        {q \in IndexPermutations(Len(frame)) :
            \A i, j \in DOMAIN frame : i < j =>
                IF isna(frame[q[j]][col])
                THEN isna(frame[q[i]][col]) => q[i] < q[j]
                ELSE /\ ~isna(frame[q[i]][col])
                     /\ FracLe(frame[q[j]][col][1], frame[q[i]][col][1])}}

\* The columns of df the callback reads.
additives_needs ==
    {"country_code", "nutrition_grade", "nova_group", "country_name", "additives_n"}

update_additives_chart ==
    /\ pc = "serving" /\ handler = "idle"
    /\ \E selected_countries \in country_selector,
          selected_grades \in nutrition_grade_selector,
          nova_range \in nova_slider :
          IF ~(additives_needs \subseteq df_columns)
          THEN unavailable([countries |-> selected_countries, grades |-> selected_grades,
                            nova |-> nova_range])
          ELSE
          LET filtered == boolean_index(df, [i \in DOMAIN df |->
                  additives_mask(df[i], selected_countries, selected_grades, nova_range)])
              additives_avg == set_columns(
                  groupby_mean(filtered, "country_name", <<"additives_n">>),
                  <<"country_name", "additives_n">>,
                  <<"Country", "Average Number of Additives">>)
          IN  /\ sel' = [countries |-> selected_countries, grades |-> selected_grades,
                         nova |-> nova_range]
              /\ filtered_df' = filtered
              /\ agg' = additives_avg
              /\ fig' \in sort_values_desc(additives_avg, "Average Number of Additives")
    /\ handler' = "update_additives_chart"
    /\ raised' = IF additives_needs \subseteq df_columns THEN "none" ELSE "KeyError"
    /\ UNCHANGED <<source, file, df, df_columns, pc, calls>>

-----------------------------------------------------------------------------
(* update_gdp_vs_nutrition_chart (lines 529-573). *)

gdp_columns == <<"nutrition_score", "nova_group", "additives_n">>

gdp_vs_nutrition_mask(r, selected_grades, nova_range) ==
    /\ isin(r.nutrition_grade, selected_grades)
    /\ ge(r.nova_group, nova_range[1])
    /\ le(r.nova_group, nova_range[2])
    /\ ~isna(r.gdp_per_capita)

\* The columns of df the callback reads.
gdp_vs_nutrition_needs ==
    {"nutrition_grade", "nova_group", "gdp_per_capita", "country_name"}
        \cup {gdp_columns[j] : j \in DOMAIN gdp_columns}

update_gdp_vs_nutrition_chart ==
    /\ pc = "serving" /\ handler = "idle"
    /\ \E selected_grades \in nutrition_grade_selector, nova_range \in nova_slider :
          IF ~(gdp_vs_nutrition_needs \subseteq df_columns)
          THEN unavailable([grades |-> selected_grades, nova |-> nova_range])
          ELSE
          LET filtered == boolean_index(df, [i \in DOMAIN df |->
                  gdp_vs_nutrition_mask(df[i], selected_grades, nova_range)])
              gdp_data == groupby2_mean(filtered, "country_name", "gdp_per_capita",
                                        gdp_columns)
          IN  /\ sel' = [grades |-> selected_grades, nova |-> nova_range]
              /\ filtered_df' = filtered
              /\ agg' = gdp_data
              /\ fig' = gdp_data
    /\ handler' = "update_gdp_vs_nutrition_chart"
    /\ raised' = IF gdp_vs_nutrition_needs \subseteq df_columns THEN "none" ELSE "KeyError"
    /\ UNCHANGED <<source, file, df, df_columns, pc, calls>>

-----------------------------------------------------------------------------
(* update_processing_by_country_chart (lines 644-697). *)

processing_by_country_mask(r, selected_countries, selected_grades) ==
    /\ isin(r.country_code, selected_countries)
    /\ isin(r.nutrition_grade, selected_grades)

\* frame.groupby([by1, by2]).size().unstack().fillna(0): one row per first
\* key and one column per second key that occur in some group; the cell of a
\* pair that forms no group is filled with 0.
unstack_fillna(frame, by1, by2) ==
    LET keys == groupby2_keys(frame, by1, by2)
        index == sorted({keys[g][1] : g \in DOMAIN keys}, by1)
        columns == {keys[g][2] : g \in DOMAIN keys}
    IN  [i \in DOMAIN index |->
            [c \in {by1, "cols"} |->
                IF c = by1 THEN Cell(index[i])
                ELSE [n \in columns |->
                        Len(group2_rows(frame, by1, by2, <<index[i], n>>))]]]

\* nova_by_country[col] = nova_by_country[col] / country_totals * 100
percentages(nova_by_country, country_totals) ==
    [i \in DOMAIN nova_by_country |->
        [c \in DOMAIN nova_by_country[i] |->
            IF c = "cols"
            THEN [n \in DOMAIN nova_by_country[i].cols |->
                    Cell(Frac(nova_by_country[i].cols[n] * 100,
                              country_totals[nova_by_country[i].country_name[1]]))]
            ELSE nova_by_country[i][c]]]

\* sorted(nova_by_country.columns[1:])
value_columns(nova_by_country) ==
    IF nova_by_country = <<>> THEN <<>>
    ELSE sorted(DOMAIN nova_by_country[1].cols, "nova_group")

\* lines 659-663: pd.melt(nova_by_country, id_vars=['country_name'], ...)
processing_melt(nova_by_country) ==
    melt(nova_by_country, [i \in DOMAIN nova_by_country |-> nova_by_country[i].cols],
         "country_name", value_columns(nova_by_country), "NOVA Group", "Percentage")

\* melted_df['NOVA Description']
add_nova_description(melted_df) ==
    AddColumn(melted_df, "NOVA Description",
              [i \in DOMAIN melted_df |->
                  Cell(<<"Group", melted_df[i]["NOVA Group"][1],
                         nova_descriptions[melted_df[i]["NOVA Group"][1]]>>)])

\* The columns of df the callback reads.
processing_by_country_needs ==
    {"country_code", "nutrition_grade", "country_name", "nova_group"}

update_processing_by_country_chart ==
    /\ pc = "serving" /\ handler = "idle"
    /\ \E selected_countries \in country_selector,
          selected_grades \in nutrition_grade_selector :
          IF ~(processing_by_country_needs \subseteq df_columns)
          THEN unavailable([countries |-> selected_countries, grades |-> selected_grades])
          ELSE
          LET filtered == boolean_index(df, [i \in DOMAIN df |->
                  processing_by_country_mask(df[i], selected_countries, selected_grades)])
              country_totals == groupby_size(filtered, "country_name")
              nova_by_country == percentages(
                  unstack_fillna(filtered, "country_name", "nova_group"), country_totals)
              melted_df == processing_melt(nova_by_country)
          IN  /\ sel' = [countries |-> selected_countries, grades |-> selected_grades]
              /\ filtered_df' = filtered
              /\ agg' = nova_by_country
              /\ fig' = add_nova_description(melted_df)
    /\ handler' = "update_processing_by_country_chart"
    /\ raised' = IF processing_by_country_needs \subseteq df_columns THEN "none" ELSE "KeyError"
    /\ UNCHANGED <<source, file, df, df_columns, pc, calls>>

-----------------------------------------------------------------------------
(* update_additives_vs_nutrition_chart (lines 413-520). *)

\* line 414: df[df['country_code'].isin(selected_countries)]
additives_vs_country_filter(frame, selected_countries) ==
    boolean_index(frame, [i \in DOMAIN frame |->
        isin(frame[i].country_code, selected_countries)])

\* lines 417-421: the NOVA filter, applied if df has the column.
additives_vs_nova_filter(frame, cols, nova_range) ==
    IF "nova_group" \in cols
    THEN boolean_index(frame, [i \in DOMAIN frame |->
             ge(frame[i].nova_group, nova_range[1]) /\ le(frame[i].nova_group, nova_range[2])])
    ELSE frame

\* A removal that keeps the rows that have one of the plotted values.
additives_vs_dropna_either(frame) ==
    boolean_index(frame, [i \in DOMAIN frame |->
        ~isna(frame[i].additives_n) \/ ~isna(frame[i].nutrition_score)])

\* lines 425-428: the rows that have both plotted values.
additives_vs_dropna(frame) ==
    boolean_index(frame, [i \in DOMAIN frame |->
        ~isna(frame[i].additives_n) /\ ~isna(frame[i].nutrition_score)])

\* lines 431-440 and 444-453: an empty figure that carries a title only.
placeholder(title) == [title |-> title, data |-> <<>>]

\* Series.median(): the middle of the non-NaN values in ascending order, the
\* mean of the two middle ones if their number is even.
median(cells) ==
    LET present == SelectSeq(cells, LAMBDA c : ~isna(c))
        n == Len(present)
        rank(i) == Cardinality({j \in 1..n : present[j][1] < present[i][1]
                                              \/ (present[j][1] = present[i][1] /\ j < i)})
        at(k) == present[CHOOSE i \in 1..n : rank(i) = k - 1][1]
    IN  IF n = 0 THEN NaN
        ELSE IF n % 2 = 1 THEN Cell(Frac(at((n + 1) \div 2), 1))
        ELSE Cell(Frac(at(n \div 2) + at((n \div 2) + 1), 2))

\* lines 461-462: the size column can be filled.
has_ingredients_count(frame, cols) ==
    /\ "ingredients_count" \in cols
    /\ \E i \in DOMAIN frame : ~isna(frame[i].ingredients_count)

\* lines 464-468: frame['ingredients_count_filled'] =
\* frame['ingredients_count'].fillna(median_value), on a copy of the subset.
fill_ingredients_count(frame) ==
    LET median_value == median(column(frame, "ingredients_count"))
    IN  AddColumn(frame, "ingredients_count_filled",
                  [i \in DOMAIN frame |->
                      IF isna(frame[i].ingredients_count) THEN median_value
                      ELSE Cell(Frac(frame[i].ingredients_count[1], 1))])

\* lines 455-458: the hover columns that the frame has.
hover_data(cols) == {"brands", "nutrition_grade", "nova_group"} \cap cols

\* lines 473-489: px.scatter(frame, x='additives_n', y='nutrition_score', ...):
\* one point per row, in row order, with the columns the figure is given.
scatter(frame, cols) ==
    LET shown == {"additives_n", "nutrition_score"}
                 \cup ({"country_name", "product_name", "ingredients_count_filled"} \cap cols)
                 \cup hover_data(cols)
    IN  [title |-> "Relationship Between Additives and Nutrition Grade",
         data |-> [i \in DOMAIN frame |-> [c \in shown |-> frame[i][c]]]]

\* lines 424-440: the subset after the filters, or no subset if a plotted
\* column is missing.
additives_vs_subset(frame, cols, selected_countries, nova_range) ==
    LET filtered == additives_vs_nova_filter(
                        additives_vs_country_filter(frame, selected_countries),
                        cols, nova_range)
    IN  IF {"additives_n", "nutrition_score"} \subseteq cols
        THEN additives_vs_dropna(filtered) ELSE filtered

\* lines 443-469: the frame that is plotted.
additives_vs_plotted(subset, cols) ==
    IF has_ingredients_count(subset, cols) THEN fill_ingredients_count(subset)
    ELSE subset

\* lines 424-520: the figure the callback returns for a subset.
additives_vs_figure(subset, cols) ==
    IF ~({"additives_n", "nutrition_score"} \subseteq cols)
    THEN placeholder("Required data columns are missing for this visualization")
    ELSE IF subset = <<>>
    THEN placeholder("No data available with current filters")
    ELSE scatter(additives_vs_plotted(subset, cols),
                 IF has_ingredients_count(subset, cols)
                 THEN cols \cup {"ingredients_count_filled"} ELSE cols)

\* A callback that writes the filled column into the shared frame.
update_additives_vs_nutrition_chart_on_df ==
    /\ pc = "serving" /\ handler = "idle"
    /\ \E selected_countries \in country_selector, nova_range \in nova_slider :
          LET subset == additives_vs_subset(df, df_columns, selected_countries, nova_range)
          IN  /\ sel' = [countries |-> selected_countries, nova |-> nova_range]
              /\ filtered_df' = additives_vs_plotted(subset, df_columns)
              /\ agg' = <<>>
              /\ fig' = additives_vs_figure(subset, df_columns)
              /\ df' = IF has_ingredients_count(df, df_columns)
                       THEN fill_ingredients_count(df) ELSE df
    /\ handler' = "update_additives_vs_nutrition_chart"
    /\ raised' = "none"
    /\ UNCHANGED <<source, file, df_columns, pc, calls>>

update_additives_vs_nutrition_chart ==
    /\ pc = "serving" /\ handler = "idle"
    /\ \E selected_countries \in country_selector, nova_range \in nova_slider :
          IF "country_code" \notin df_columns
          THEN unavailable([countries |-> selected_countries, nova |-> nova_range])
          ELSE
          LET subset == additives_vs_subset(df, df_columns, selected_countries, nova_range)
          IN  /\ sel' = [countries |-> selected_countries, nova |-> nova_range]
              /\ filtered_df' = additives_vs_plotted(subset, df_columns)
              /\ agg' = <<>>
              /\ fig' = additives_vs_figure(subset, df_columns)
    /\ handler' = "update_additives_vs_nutrition_chart"
    /\ raised' = IF "country_code" \in df_columns THEN "none" ELSE "KeyError"
    /\ UNCHANGED <<source, file, df, df_columns, pc, calls>>

-----------------------------------------------------------------------------
(* update_continent_comparison_chart (lines 582-636). *)

continent_columns ==
    <<"nutrition_score", "nova_group", "additives_n", "nutriments_sugars_100g",
      "nutriments_fat_100g">>

continent_names ==
    <<"Nutrition Score", "NOVA Group", "Additives Count", "Sugar (g/100g)", "Fat (g/100g)">>

\* The columns of df the callback reads.
continent_comparison_needs ==
    {"nutrition_grade", "nova_group", "continent"}
        \cup {continent_columns[j] : j \in DOMAIN continent_columns}

continent_comparison_mask(r, selected_grades, nova_range) ==
    /\ isin(r.nutrition_grade, selected_grades)
    /\ ge(r.nova_group, nova_range[1])
    /\ le(r.nova_group, nova_range[2])
    /\ ~isna(r.continent)

\* lines 605-622: the three bar traces read these columns of continent_data.
continent_bars(continent_data) ==
    [i \in DOMAIN continent_data |->
        [c \in {"Continent", "Nutrition Score", "NOVA Group", "Additives Count"} |->
            continent_data[i][c]]]

update_continent_comparison_chart ==
    /\ pc = "serving" /\ handler = "idle"
    /\ \E selected_grades \in nutrition_grade_selector, nova_range \in nova_slider :
          IF ~(continent_comparison_needs \subseteq df_columns)
          THEN unavailable([grades |-> selected_grades, nova |-> nova_range])
          ELSE
          LET filtered == boolean_index(df, [i \in DOMAIN df |->
                  continent_comparison_mask(df[i], selected_grades, nova_range)])
              continent_data == set_columns(
                  groupby_mean(filtered, "continent", continent_columns),
                  <<"continent">> \o continent_columns, <<"Continent">> \o continent_names)
          IN  /\ sel' = [grades |-> selected_grades, nova |-> nova_range]
              /\ filtered_df' = filtered
              /\ agg' = continent_data
              /\ fig' = continent_bars(continent_data)
    /\ handler' = "update_continent_comparison_chart"
    /\ raised' = IF continent_comparison_needs \subseteq df_columns THEN "none" ELSE "KeyError"
    /\ UNCHANGED <<source, file, df, df_columns, pc, calls>>

-----------------------------------------------------------------------------
(* Callbacks on worker threads: app.run serves each request on a thread of   *)
(* its own, so two callbacks run side by side, statement by statement.  The  *)
(* locals of a call (filtered_df, nova_by_country, fig) belong to the call;  *)
(* df and df.columns are the module's.                                       *)

\* The selections the concurrent calls are made with.
worker_nova_ranges == {r \in nova_slider : r[1] \in {NovaMin, NovaMax - 1} /\ r[2] = NovaMax}

\* The request for the scatter plot arrives.
call_additives_vs_nutrition(w) ==
    /\ pc = "serving" /\ calls[w].pc = "idle"
    /\ \E selected_countries \in country_selector, nova_range \in worker_nova_ranges :
          calls' = [calls EXCEPT ![w] =
              [pc |-> "line414", handler |-> "update_additives_vs_nutrition_chart",
               sel |-> [countries |-> selected_countries, nova |-> nova_range],
               filtered_df |-> <<>>, fig |-> <<>>, raised |-> "none"]]
    /\ UNCHANGED <<source, file, df, df_columns, pc, handler, sel, filtered_df, agg, fig,
                   raised>>

\* line 414
additives_vs_line414(w) ==
    /\ calls[w].pc = "line414"
    /\ calls' = [calls EXCEPT ![w] =
          IF "country_code" \notin df_columns
          THEN [calls[w] EXCEPT !.pc = "return", !.raised = "KeyError"]
          ELSE [calls[w] EXCEPT !.pc = "line417",
                         !.filtered_df = additives_vs_country_filter(df, calls[w].sel.countries)]]
    /\ UNCHANGED <<source, file, df, df_columns, pc, handler, sel, filtered_df, agg, fig,
                   raised>>

\* lines 417-421
additives_vs_line417(w) ==
    /\ calls[w].pc = "line417"
    /\ calls' = [calls EXCEPT ![w] =
          [calls[w] EXCEPT !.pc = "line424",
                    !.filtered_df = additives_vs_nova_filter(calls[w].filtered_df, df_columns,
                                                             calls[w].sel.nova)]]
    /\ UNCHANGED <<source, file, df, df_columns, pc, handler, sel, filtered_df, agg, fig,
                   raised>>

\* lines 424-453: the rows with both values; a placeholder is returned if a
\* column is missing or no row is left.
additives_vs_line424(w) ==
    /\ calls[w].pc = "line424"
    /\ LET subset == IF {"additives_n", "nutrition_score"} \subseteq df_columns
                     THEN additives_vs_dropna(calls[w].filtered_df)
                     ELSE calls[w].filtered_df
       IN  calls' = [calls EXCEPT ![w] =
              IF ~({"additives_n", "nutrition_score"} \subseteq df_columns) \/ subset = <<>>
              THEN [calls[w] EXCEPT !.pc = "return", !.filtered_df = subset,
                             !.fig = additives_vs_figure(subset, df_columns)]
              ELSE [calls[w] EXCEPT !.pc = "line460", !.filtered_df = subset]]
    /\ UNCHANGED <<source, file, df, df_columns, pc, handler, sel, filtered_df, agg, fig,
                   raised>>

\* lines 460-520: the filled size column on a copy, and the scatter plot.
additives_vs_line460(w) ==
    /\ calls[w].pc = "line460"
    /\ calls' = [calls EXCEPT ![w] =
          [calls[w] EXCEPT !.pc = "return",
                    !.filtered_df = additives_vs_plotted(calls[w].filtered_df, df_columns),
                    !.fig = additives_vs_figure(calls[w].filtered_df, df_columns)]]
    /\ UNCHANGED <<source, file, df, df_columns, pc, handler, sel, filtered_df, agg, fig,
                   raised>>

\* The request for the processing chart arrives.
call_processing_by_country(w) ==
    /\ pc = "serving" /\ calls[w].pc = "idle"
    /\ \E selected_countries \in country_selector,
          selected_grades \in nutrition_grade_selector :
          calls' = [calls EXCEPT ![w] =
              [pc |-> "line645", handler |-> "update_processing_by_country_chart",
               sel |-> [countries |-> selected_countries, grades |-> selected_grades],
               filtered_df |-> <<>>, nova_by_country |-> <<>>, fig |-> <<>>,
               raised |-> "none"]]
    /\ UNCHANGED <<source, file, df, df_columns, pc, handler, sel, filtered_df, agg, fig,
                   raised>>

\* A filter that binds its result to the module's df.
processing_line645_global_df(w) ==
    /\ calls[w].pc = "line645"
    /\ LET filtered == boolean_index(df, [i \in DOMAIN df |->
               processing_by_country_mask(df[i], calls[w].sel.countries,
                                          calls[w].sel.grades)])
       IN  /\ calls' = [calls EXCEPT ![w] =
                  [calls[w] EXCEPT !.pc = "line650", !.filtered_df = filtered]]
           /\ df' = filtered
    /\ UNCHANGED <<source, file, df_columns, pc, handler, sel, filtered_df, agg, fig,
                   raised>>

\* lines 645-646
processing_line645(w) ==
    /\ calls[w].pc = "line645"
    /\ calls' = [calls EXCEPT ![w] =
          IF ~(processing_by_country_needs \subseteq df_columns)
          THEN [calls[w] EXCEPT !.pc = "return", !.raised = "KeyError"]
          ELSE [calls[w] EXCEPT !.pc = "line650",
                         !.filtered_df = boolean_index(df, [i \in DOMAIN df |->
                             processing_by_country_mask(df[i], calls[w].sel.countries,
                                                        calls[w].sel.grades)])]]
    /\ UNCHANGED <<source, file, df, df_columns, pc, handler, sel, filtered_df, agg, fig,
                   raised>>

\* lines 650-656
processing_line650(w) ==
    /\ calls[w].pc = "line650"
    /\ calls' = [calls EXCEPT ![w] =
          [calls[w] EXCEPT !.pc = "line659",
                    !.nova_by_country = percentages(
                        unstack_fillna(calls[w].filtered_df, "country_name", "nova_group"),
                        groupby_size(calls[w].filtered_df, "country_name"))]]
    /\ UNCHANGED <<source, file, df, df_columns, pc, handler, sel, filtered_df, agg, fig,
                   raised>>

\* lines 659-697
processing_line659(w) ==
    /\ calls[w].pc = "line659"
    /\ calls' = [calls EXCEPT ![w] =
          [calls[w] EXCEPT !.pc = "return",
                    !.fig = add_nova_description(processing_melt(calls[w].nova_by_country))]]
    /\ UNCHANGED <<source, file, df, df_columns, pc, handler, sel, filtered_df, agg, fig,
                   raised>>

\* The figure goes to the client and the thread ends.
return(w) ==
    /\ calls[w].pc = "return"
    /\ calls' = [calls EXCEPT ![w] = NoCall]
    /\ UNCHANGED <<source, file, df, df_columns, pc, handler, sel, filtered_df, agg, fig,
                   raised>>

-----------------------------------------------------------------------------
(* The mock dashboard (src/app.py): no dataset is read, and the four chart  *)
(* callbacks build their figures from literals.                             *)

\* lines 87-112: the values the three controls of the mock page can hold.
mock_country_selector == SUBSET {"us", "fr", "uk"}

mock_category_selector == {"all"}

mock_radar_category_selector == {"compare"}

\* A bar chart that counts only for the selected countries.
mock_grade_data_by_selection(selected_countries, selected_category, nova_range) ==
    [y |-> <<"A", "B", "C", "D", "E">>,
     x |-> IF selected_countries = {} THEN <<0, 0, 0, 0, 0>> ELSE <<32, 45, 28, 18, 7>>]

\* app.py lines 234-248: grade_data = {'A': 32, 'B': 45, 'C': 28, 'D': 18, 'E': 7}
mock_grade_data(selected_countries, selected_category, nova_range) ==
    [y |-> <<"A", "B", "C", "D", "E">>, x |-> <<32, 45, 28, 18, 7>>]

\* app.py lines 287-306
mock_macronutrient_data(selected_countries, selected_category, nova_range) ==
    [x |-> <<"Protein", "Carbs", "Fat", "Fiber", "Sugar", "Salt">>,
     y |-> <<12, 38, 18, 7, 16, 9>>]

\* app.py lines 341-378: the three Scatterpolar traces.
mock_radar_data(selected_countries, radar_category, nova_range) ==
    <<[name |-> "Dairy", r |-> <<8, 4, 7, 2, 9, 6>>],
      [name |-> "Cereals", r |-> <<5, 9, 3, 8, 4, 7>>],
      [name |-> "Meats", r |-> <<9, 2, 6, 3, 4, 8>>]>>

\* app.py lines 415-476: the links of the Sankey diagram.
mock_flow_data(selected_countries, selected_category) ==
    [source |-> <<0, 0, 0, 1, 1, 1, 2, 2, 3, 3, 4, 4, 5, 5, 6, 6, 7, 7, 8, 8, 9, 9>>,
     target |-> <<5, 6, 8, 5, 7, 8, 5, 6, 7, 9, 7, 9,
                  10, 11, 10, 12, 11, 13, 12, 14, 10, 11>>,
     value |-> <<20, 15, 10, 15, 20, 10, 25, 10, 18, 12, 22, 15,
                 20, 15, 10, 15, 25, 15, 10, 10, 15, 20>>]

\* app.py line 492: app.run(debug=True)
mock_app_run ==
    /\ pc = "app.py:492"
    /\ pc' = "mock"
    /\ UNCHANGED <<source, file, df, df_columns, handler, sel, filtered_df, agg, fig,
                   raised, calls>>

mock_update_nutrition_grade_chart ==
    /\ pc = "mock" /\ handler = "idle"
    /\ \E selected_countries \in mock_country_selector,
          selected_category \in mock_category_selector, nova_range \in nova_slider :
          /\ sel' = [countries |-> selected_countries, category |-> selected_category,
                     nova |-> nova_range]
          /\ fig' = mock_grade_data(selected_countries, selected_category, nova_range)
    /\ handler' = "app.update_nutrition_grade_chart"
    /\ UNCHANGED <<source, file, df, df_columns, pc, filtered_df, agg, raised, calls>>

mock_update_macronutrient_chart ==
    /\ pc = "mock" /\ handler = "idle"
    /\ \E selected_countries \in mock_country_selector,
          selected_category \in mock_category_selector, nova_range \in nova_slider :
          /\ sel' = [countries |-> selected_countries, category |-> selected_category,
                     nova |-> nova_range]
          /\ fig' = mock_macronutrient_data(selected_countries, selected_category,
                                            nova_range)
    /\ handler' = "app.update_macronutrient_chart"
    /\ UNCHANGED <<source, file, df, df_columns, pc, filtered_df, agg, raised, calls>>

mock_update_radar_chart ==
    /\ pc = "mock" /\ handler = "idle"
    /\ \E selected_countries \in mock_country_selector,
          radar_category \in mock_radar_category_selector, nova_range \in nova_slider :
          /\ sel' = [countries |-> selected_countries, category |-> radar_category,
                     nova |-> nova_range]
          /\ fig' = mock_radar_data(selected_countries, radar_category, nova_range)
    /\ handler' = "app.update_radar_chart"
    /\ UNCHANGED <<source, file, df, df_columns, pc, filtered_df, agg, raised, calls>>

mock_update_flow_chart ==
    /\ pc = "mock" /\ handler = "idle"
    /\ \E selected_countries \in mock_country_selector,
          selected_category \in mock_category_selector :
          /\ sel' = [countries |-> selected_countries, category |-> selected_category]
          /\ fig' = mock_flow_data(selected_countries, selected_category)
    /\ handler' = "app.update_flow_chart"
    /\ UNCHANGED <<source, file, df, df_columns, pc, filtered_df, agg, raised, calls>>

-----------------------------------------------------------------------------
(* The page and its callbacks: the page holds the values of the three       *)
(* controls, and Dash calls a callback with the values of the Inputs its     *)
(* decorator names, in the order of the function's parameters.               *)

\* The values the three controls of the page can hold together.
pages ==
    {[countries |-> c, grades |-> g, nova |-> n] :
        c \in country_selector, g \in nutrition_grade_selector, n \in nova_slider}

\* lines 181-187: the figure data of update_nutrition_grade_chart.
nutrition_grade_figure(frame, selected_countries, nova_range) ==
    groupby2_size(
        boolean_index(frame, [i \in DOMAIN frame |->
            nutrition_grade_mask(frame[i], selected_countries, nova_range)]),
        "country_name", "nutrition_grade")

\* lines 331-347: the figure data of update_nova_group_chart.
nova_group_figure(frame, selected_countries, selected_grades) ==
    add_description(groupby2_size(
        boolean_index(frame, [i \in DOMAIN frame |->
            nova_group_mask(frame[i], selected_countries, selected_grades)]),
        "country_name", "nova_group"))

\* lines 529-540: the figure data of update_gdp_vs_nutrition_chart.
gdp_vs_nutrition_figure(frame, selected_grades, nova_range) ==
    groupby2_mean(
        boolean_index(frame, [i \in DOMAIN frame |->
            gdp_vs_nutrition_mask(frame[i], selected_grades, nova_range)]),
        "country_name", "gdp_per_capita", gdp_columns)

\* lines 582-622: the figure data of update_continent_comparison_chart.
continent_comparison_figure(frame, selected_grades, nova_range) ==
    continent_bars(set_columns(
        groupby_mean(
            boolean_index(frame, [i \in DOMAIN frame |->
                continent_comparison_mask(frame[i], selected_grades, nova_range)]),
            "continent", continent_columns),
        <<"continent">> \o continent_columns, <<"Continent">> \o continent_names))

\* lines 644-665: the figure data of update_processing_by_country_chart.
processing_by_country_figure(frame, selected_countries, selected_grades) ==
    LET filtered == boolean_index(frame, [i \in DOMAIN frame |->
            processing_by_country_mask(frame[i], selected_countries, selected_grades)])
    IN  add_nova_description(processing_melt(percentages(
            unstack_fillna(filtered, "country_name", "nova_group"),
            groupby_size(filtered, "country_name"))))

\* The decorators at lines 176-180, 326-330, 407-411, 524-528, 577-581 and
\* 639-643: each callback is called with the values of its two Inputs.
handle(name, frame, page) ==
    CASE name = "update_nutrition_grade_chart" ->
             nutrition_grade_figure(frame, page.countries, page.nova)
      [] name = "update_nova_group_chart" ->
             nova_group_figure(frame, page.countries, page.grades)
      [] name = "update_additives_vs_nutrition_chart" ->
             additives_vs_figure(
                 additives_vs_subset(frame, df_columns, page.countries, page.nova),
                 df_columns)
      [] name = "update_gdp_vs_nutrition_chart" ->
             gdp_vs_nutrition_figure(frame, page.grades, page.nova)
      [] name = "update_continent_comparison_chart" ->
             continent_comparison_figure(frame, page.grades, page.nova)
      [] name = "update_processing_by_country_chart" ->
             processing_by_country_figure(frame, page.countries, page.grades)

\* A dispatch in which every chart is drawn from the rows that pass all three
\* controls of the page.
callback_on_page_subset(name, frame, page) ==
    handle(name,
           boolean_index(frame, [i \in DOMAIN frame |->
               macronutrient_mask(frame[i], page.countries, page.grades, page.nova)]),
           page)

\* Dash runs the callback on the module's data frame.
callback(name, frame, page) == handle(name, frame, page)

two_facet_callbacks ==
    {"update_nutrition_grade_chart", "update_nova_group_chart",
     "update_additives_vs_nutrition_chart", "update_gdp_vs_nutrition_chart",
     "update_continent_comparison_chart", "update_processing_by_country_chart"}

\* A control of the page changes and Dash calls one of the callbacks; sel
\* keeps the values of all three controls at the time of the call.
dispatch ==
    /\ pc = "serving" /\ handler = "idle"
    /\ \E name \in two_facet_callbacks, page \in pages :
          /\ handler' = name
          /\ sel' = page
          /\ fig' = callback(name, df, page)
    /\ UNCHANGED <<source, file, df, df_columns, pc, filtered_df, agg, raised, calls>>

-----------------------------------------------------------------------------
(* The callback returns its figure; its locals are gone. *)

respond ==
    /\ handler # "idle"
    /\ handler' = "idle"
    /\ sel' = NoSel
    /\ filtered_df' = <<>>
    /\ agg' = <<>>
    /\ fig' = <<>>
    /\ raised' = "none"
    /\ UNCHANGED <<source, file, df, df_columns, pc, calls>>

-----------------------------------------------------------------------------
(* The CSV files the model loads. *)

\* The header of openfoodfacts_data.csv: the columns the callbacks read.  The
\* nutriments_* names stand for the dotted names of the file
\* ('nutriments.fat_100g' ...).
csv_columns ==
    {"country_code", "nutrition_grade", "nova_group", "nutriments_fat_100g",
     "nutriments_sugars_100g", "nutriments_proteins_100g",
     "nutriments_carbohydrates_100g", "nutriments_salt_100g", "additives_n",
     "nutrition_score", "ingredients_count", "continent", "product_name", "brands"}

\* One data row of the file; code is a cell.
Product(code, grade, nova, sugars, additives, score, ingredients, continent) ==
    [country_code |-> code, nutrition_grade |-> grade, nova_group |-> nova,
     nutriments_fat_100g |-> Cell(2), nutriments_sugars_100g |-> sugars,
     nutriments_proteins_100g |-> Cell(1), nutriments_carbohydrates_100g |-> Cell(3),
     nutriments_salt_100g |-> NaN, additives_n |-> additives,
     nutrition_score |-> score, ingredients_count |-> ingredients,
     continent |-> continent, product_name |-> Cell("product"),
     brands |-> Cell("brand")]

Row(code, grade, nova, sugars, additives) ==
    Product(Cell(code), grade, nova, sugars, additives, Cell(3), Cell(5), NaN)

SeqsUpTo(S, n) == UNION {[1..k -> S] : k \in 1..n}

\* Rows that differ in the three filtered columns.
FilterRows ==
    {Row(c, g, n, Cell(4), Cell(1)) :
        c \in {"us", "fr"}, g \in {Cell("A"), Cell("B"), NaN},
        n \in {Cell(1), Cell(3), NaN}}

\* Rows that differ in their country and in the columns that are averaged.
AggRows ==
    {Row(c, Cell("A"), Cell(1), v, v) : c \in {"us", "fr"}, v \in {Cell(2), Cell(4), NaN}}

\* Rows that differ in their country and NOVA group; "ca" and "CA" are two
\* codes with one display name.
PctRows ==
    {Row(c, Cell("A"), n, Cell(4), Cell(1)) :
        c \in {"de", "ca", "CA"}, n \in {Cell(1), Cell(3), NaN}}

\* Rows that differ in their country and in the columns of the scatter plot:
\* the number of additives and the ingredient count, each absent in some row.
ScatterRows ==
    {Product(Cell(c[1]), Cell("A"), Cell(1), Cell(4), v[1], Cell(3), v[2], c[2]) :
        c \in {<<"fr", Cell("Europe")>>, <<"ca", NaN>>},
        v \in {<<Cell(1), Cell(4)>>, <<Cell(1), Cell(8)>>, <<Cell(1), NaN>>,
                <<NaN, Cell(4)>>}}

\* Rows of one country that differ in their NOVA group and ingredient count.
ConcRows ==
    {Product(Cell("fr"), Cell("A"), Cell(1), Cell(4), Cell(1), Cell(3), Cell(4), NaN),
     Product(Cell("fr"), Cell("A"), Cell(3), Cell(4), Cell(1), Cell(3), NaN, NaN)}

\* Rows of one country with a NOVA group at either end of the scale, or none.
RequestRows ==
    {Row("fr", Cell("A"), n, Cell(4), Cell(1)) : n \in {Cell(NovaMin), Cell(NovaMax), NaN}}

\* Rows that differ in their country code: in both lookup tables, in neither,
\* or absent.
LoadRows ==
    {Product(c, Cell("A"), Cell(1), Cell(4), Cell(1), Cell(3), Cell(5), NaN) :
        c \in {Cell("us"), Cell("in"), Cell("ca"), Cell("CA"), NaN}}

\* The headers of the files: complete, without one of the columns the
\* callbacks read, or none at all (a file of zero bytes).
LoadHeaders ==
    {csv_columns, {}}
        \cup {csv_columns \ {c} :
                 c \in {"country_code", "nutrition_grade", "nova_group", "additives_n",
                        "nutrition_score", "nutriments_sugars_100g"}}

\* The rows of a file under its header.
under(header, rows) == [i \in DOMAIN rows |-> [c \in header |-> rows[i][c]]]

\* Rows that differ in all three facets; the rows of France have a continent.
PageRows ==
    {Product(Cell("us"), Cell("A"), Cell(1), Cell(4), Cell(1), Cell(3), Cell(5), NaN),
     Product(Cell("us"), Cell("B"), Cell(3), Cell(2), Cell(1), Cell(3), NaN, NaN),
     Product(Cell("fr"), Cell("A"), Cell(3), Cell(4), Cell(1), Cell(3), Cell(5),
             Cell("Europe")),
     Product(Cell("fr"), Cell("B"), Cell(1), Cell(2), NaN, Cell(3), Cell(5),
             Cell("Europe"))}

\* Rows of the scatter plot: with or without an additive count, with or
\* without a nutrition score, at either end of the NOVA scale.
PlotRows ==
    {Product(Cell("us"), Cell("A"), Cell(n), Cell(4), v[1], v[2], Cell(5), NaN) :
        n \in {1, 4}, v \in {<<Cell(1), Cell(3)>>, <<NaN, Cell(3)>>, <<Cell(1), NaN>>}}
    \cup {Product(Cell("fr"), Cell("B"), Cell(4), Cell(4), Cell(2), Cell(7), Cell(5),
                  Cell("Europe"))}

\* Files with and without the columns the scatter plot looks for.
PlotHeaders ==
    {csv_columns} \cup {csv_columns \ {c} : c \in {"nova_group", "additives_n", "nutrition_score"}}

\* The process before line 25 runs, for a file of the given header and rows.
Start(exists, header, rows) ==
    /\ file = [exists |-> exists, header |-> header]
    /\ source = rows
    /\ df = <<>>
    /\ df_columns = {}
    /\ pc = "line25"
    /\ handler = "idle"
    /\ sel = NoSel
    /\ filtered_df = <<>>
    /\ agg = <<>>
    /\ fig = <<>>
    /\ raised = "none"
    /\ calls = NoCalls

InitWith(Files) == \E rows \in Files : Start(TRUE, csv_columns, rows)

load ==
    \/ read_csv
    \/ add_gdp_per_capita
    \/ add_country_name
    \/ layout
    \/ app_run

\* The whole dashboard.
Init == InitWith(SeqsUpTo(FilterRows, MaxRows))

Next ==
    \/ load
    \/ update_nutrition_grade_chart
    \/ update_macronutrient_chart
    \/ update_nutrition_radar_chart
    \/ update_nova_group_chart
    \/ update_additives_chart
    \/ update_gdp_vs_nutrition_chart
    \/ update_processing_by_country_chart
    \/ respond

Spec == Init /\ [][Next]_vars

\* The callbacks that average columns by country, on longer files.
InitAggregate == InitWith(SeqsUpTo(AggRows, MaxAggRows))

NextAggregate ==
    \/ load
    \/ update_macronutrient_chart
    \/ update_nutrition_radar_chart
    \/ update_additives_chart
    \/ respond

SpecAggregate == InitAggregate /\ [][NextAggregate]_vars

\* The callbacks that count by country and NOVA group, on longer files.
InitPercent == InitWith(SeqsUpTo(PctRows, MaxPctRows))

NextPercent ==
    \/ load
    \/ update_nova_group_chart
    \/ update_processing_by_country_chart
    \/ respond

SpecPercent == InitPercent /\ [][NextPercent]_vars

\* Every callback of the page, on files whose rows differ in the columns of
\* the scatter plot.
InitScatter == InitWith(SeqsUpTo(ScatterRows, MaxScatterRows))

NextScatter ==
    \/ load
    \/ update_nutrition_grade_chart
    \/ update_macronutrient_chart
    \/ update_nutrition_radar_chart
    \/ update_nova_group_chart
    \/ update_additives_chart
    \/ update_additives_vs_nutrition_chart
    \/ update_gdp_vs_nutrition_chart
    \/ update_continent_comparison_chart
    \/ update_processing_by_country_chart
    \/ respond

SpecScatter == InitScatter /\ [][NextScatter]_vars

\* The import on files that are missing, empty or short of a column, and the
\* callbacks that are served afterwards.
InitLoad ==
    \/ Start(FALSE, {}, <<>>)
    \/ \E header \in LoadHeaders, rows \in SeqsUpTo(LoadRows, MaxLoadRows) \cup {<<>>} :
          Start(TRUE, header, IF header = {} THEN <<>> ELSE under(header, rows))

NextLoad ==
    \/ load
    \/ update_nutrition_grade_chart
    \/ update_additives_vs_nutrition_chart
    \/ update_gdp_vs_nutrition_chart
    \/ respond

SpecLoad == InitLoad /\ [][NextLoad]_vars

\* The mock dashboard.
InitMock ==
    /\ file = [exists |-> FALSE, header |-> {}]
    /\ source = <<>>
    /\ df = <<>>
    /\ df_columns = {}
    /\ pc = "app.py:492"
    /\ handler = "idle"
    /\ sel = NoSel
    /\ filtered_df = <<>>
    /\ agg = <<>>
    /\ fig = <<>>
    /\ raised = "none"
    /\ calls = NoCalls

NextMock ==
    \/ mock_app_run
    \/ mock_update_nutrition_grade_chart
    \/ mock_update_macronutrient_chart
    \/ mock_update_radar_chart
    \/ mock_update_flow_chart
    \/ respond

SpecMock == InitMock /\ [][NextMock]_vars

\* The callbacks with two Inputs, called by the page and called directly.
InitPage == InitWith(SeqsUpTo(PageRows, MaxPageRows))

NextPage ==
    \/ load
    \/ dispatch
    \/ update_nutrition_grade_chart
    \/ update_nova_group_chart
    \/ update_additives_vs_nutrition_chart
    \/ update_gdp_vs_nutrition_chart
    \/ update_continent_comparison_chart
    \/ update_processing_by_country_chart
    \/ respond

SpecPage == InitPage /\ [][NextPage]_vars

\* The scatter plot over files with and without its columns.
InitPlot ==
    \E header \in PlotHeaders, rows \in SeqsUpTo(PlotRows, MaxPlotRows) :
        Start(TRUE, header, under(header, rows))

NextPlot ==
    \/ load
    \/ update_additives_vs_nutrition_chart
    \/ respond

SpecPlot == InitPlot /\ [][NextPlot]_vars

\* Callbacks called with posted values.
InitRequest == InitWith(SeqsUpTo(RequestRows, MaxRequestRows))

NextRequest ==
    \/ load
    \/ post_nutrition_grade_chart
    \/ post_macronutrient_chart
    \/ respond

SpecRequest == InitRequest /\ [][NextRequest]_vars

\* Two callbacks on worker threads, interleaved statement by statement.
InitConcurrent == InitWith(SeqsUpTo(ConcRows, MaxConcRows))

NextConcurrent ==
    \/ load
    \/ \E w \in 1..MaxWorkers :
          \/ call_additives_vs_nutrition(w)
          \/ additives_vs_line414(w)
          \/ additives_vs_line417(w)
          \/ additives_vs_line424(w)
          \/ additives_vs_line460(w)
          \/ call_processing_by_country(w)
          \/ processing_line645(w)
          \/ processing_line650(w)
          \/ processing_line659(w)
          \/ return(w)

SpecConcurrent == InitConcurrent /\ [][NextConcurrent]_vars

-----------------------------------------------------------------------------
(* Properties of the facet filter. *)

Rows(frame) == {frame[i] : i \in DOMAIN frame}

ThreeFacetHandlers ==
    {"update_macronutrient_chart", "update_nutrition_radar_chart", "update_additives_chart"}

InCountries(r, s) == r.country_code[1] \in s.countries

InGrades(r, s) == r.nutrition_grade # NaN /\ r.nutrition_grade[1] \in s.grades

InNovaRange(r, s) ==
    /\ r.nova_group # NaN
    /\ s.nova[1] <= r.nova_group[1]
    /\ r.nova_group[1] <= s.nova[2]

\* C1: in the callbacks that filter on the three facets, a row of the dataset
\* is in the filtered subset if and only if its country code is selected, its
\* nutrition grade is selected and its NOVA group lies in the closed range.
C1_FilterConjunction ==
    handler \in ThreeFacetHandlers =>
        \A i \in DOMAIN df :
            df[i] \in Rows(filtered_df) <=>
                (InCountries(df[i], sel) /\ InGrades(df[i], sel) /\ InNovaRange(df[i], sel))

\* A subset that keeps a row on the upper end of the range and leaves out a row
\* that fails the NOVA predicate alone.
C1_Witness ==
    /\ handler = "update_macronutrient_chart"
    /\ \E i, j \in DOMAIN df :
          /\ df[i] \in Rows(filtered_df)
          /\ df[i].nova_group = Cell(sel.nova[2])
          /\ df[j] \notin Rows(filtered_df)
          /\ InCountries(df[j], sel) /\ InGrades(df[j], sel) /\ ~InNovaRange(df[j], sel)

\* C2: a callback called with no country selected, or with no grade selected,
\* filters the dataset down to the empty subset.
C2_EmptySelection ==
    /\ (handler # "idle" /\ "countries" \in DOMAIN sel /\ sel.countries = {})
          => filtered_df = <<>>
    /\ (handler # "idle" /\ "grades" \in DOMAIN sel /\ sel.grades = {})
          => filtered_df = <<>>

\* No country is selected, and a row of the dataset passes the other two facets.
C2_Witness ==
    /\ handler = "update_macronutrient_chart"
    /\ sel.countries = {}
    /\ \E i \in DOMAIN df : InGrades(df[i], sel) /\ InNovaRange(df[i], sel)
    /\ filtered_df = <<>>

\* C10: a row with a null nutrition grade is in no subset filtered on the
\* grade, and a row with a null NOVA group is in no subset filtered on the range.
C10_NullExclusion ==
    handler # "idle" =>
        \A p \in DOMAIN filtered_df :
            /\ "grades" \in DOMAIN sel => filtered_df[p].nutrition_grade # NaN
            /\ "nova" \in DOMAIN sel => filtered_df[p].nova_group # NaN

\* Both selections are non-empty; one row fails only for its null grade and
\* another only for its null NOVA group.
C10_Witness ==
    /\ handler = "update_macronutrient_chart"
    /\ sel.countries # {} /\ sel.grades # {}
    /\ \E i, j \in DOMAIN df :
          /\ df[i].nutrition_grade = NaN
          /\ InCountries(df[i], sel) /\ InNovaRange(df[i], sel)
          /\ df[i] \notin Rows(filtered_df)
          /\ df[j].nova_group = NaN
          /\ InCountries(df[j], sel) /\ InGrades(df[j], sel)
          /\ df[j] \notin Rows(filtered_df)

-----------------------------------------------------------------------------
(* Properties of the aggregation. *)

\* The number of rows of the subset with a given display name and a given
\* value in a second column.
PairCount(name, col, v) ==
    Cardinality({p \in DOMAIN filtered_df :
        filtered_df[p].country_name = Cell(name) /\ filtered_df[p][col] = Cell(v)})

SecondKey == IF handler = "update_nutrition_grade_chart" THEN "nutrition_grade" ELSE "nova_group"

\* C9: a group row stands for at least one row of the subset; grouping by
\* country and grade, or by country and NOVA group, gives one row per pair that
\* occurs in the subset, with the number of subset rows of that pair as count.
C9_NoSynthesizedGroups ==
    /\ handler \in ThreeFacetHandlers =>
          \A g \in DOMAIN agg :
              \E p \in DOMAIN filtered_df : filtered_df[p].country_name = agg[g]["Country"]
    /\ handler \in {"update_nutrition_grade_chart", "update_nova_group_chart"} =>
          /\ \A g \in DOMAIN agg :
                /\ agg[g].count[1] >= 1
                /\ agg[g].count[1] = PairCount(agg[g].country_name[1], SecondKey,
                                                agg[g][SecondKey][1])
          /\ \A g, h \in DOMAIN agg :
                (agg[g].country_name = agg[h].country_name
                    /\ agg[g][SecondKey] = agg[h][SecondKey]) => g = h
          /\ \A p \in DOMAIN filtered_df :
                filtered_df[p][SecondKey] # NaN =>
                    \E g \in DOMAIN agg :
                        /\ agg[g].country_name = filtered_df[p].country_name
                        /\ agg[g][SecondKey] = filtered_df[p][SecondKey]

\* Two countries and two grades occur in the subset, but only two of the four
\* combinations: the grouping has exactly those two rows.
C9_Witness ==
    /\ handler = "update_nutrition_grade_chart"
    /\ Len(filtered_df) = 2
    /\ filtered_df[1].country_name # filtered_df[2].country_name
    /\ filtered_df[1].nutrition_grade # NaN /\ filtered_df[2].nutrition_grade # NaN
    /\ filtered_df[1].nutrition_grade # filtered_df[2].nutrition_grade
    /\ Len(agg) = 2

\* The first row of the subset with a given display name.
FirstSeen(name) ==
    CHOOSE p \in DOMAIN filtered_df :
        /\ filtered_df[p].country_name = name
        /\ \A q \in 1..(p - 1) : filtered_df[q].country_name # name

MeanHandlers == {"update_macronutrient_chart", "update_nutrition_radar_chart"}

\* C3 as stated: the aggregate rows are ordered by the first occurrence of
\* their group key in the subset.
C3_FirstOccurrenceOrder ==
    handler \in MeanHandlers =>
        \A g, h \in DOMAIN agg :
            g < h => FirstSeen(agg[g]["Country"]) < FirstSeen(agg[h]["Country"])

\* C3 as amended: the aggregate rows are ordered by ascending group key, the
\* country display name, whatever the order of the rows of the subset.
C3_AscendingKeyOrder ==
    handler \in MeanHandlers =>
        \A g, h \in DOMAIN agg :
            g < h => str_lt(agg[g]["Country"][1], agg[h]["Country"][1])

\* The subset is us, us, fr and the aggregate is France, United States.
C3_Witness ==
    /\ handler = "update_macronutrient_chart"
    /\ Len(filtered_df) = 3
    /\ filtered_df[1].country_code = Cell("us")
    /\ filtered_df[2].country_code = Cell("us")
    /\ filtered_df[3].country_code = Cell("fr")
    /\ Len(agg) = 2
    /\ agg[1]["Country"] = Cell("France")
    /\ agg[2]["Country"] = Cell("United States")

-----------------------------------------------------------------------------
(* Properties of the reshape. *)

\* The tidy row of aggregate row i and nutrient j.
Tidy(i, j) ==
    [c \in {"Country", "Nutrient", "Amount (g per 100g)"} |->
        CASE c = "Country" -> agg[i]["Country"]
          [] c = "Nutrient" -> Cell(macro_names[j])
          [] OTHER -> agg[i][macro_names[j]]]

\* C4 as stated: the tidy rows are ordered by aggregate row first and by
\* nutrient second.
C4_RowThenMetricOrder ==
    handler = "update_macronutrient_chart" =>
        \A i \in DOMAIN agg, j \in DOMAIN macro_names :
            fig[(i - 1) * Len(macro_names) + j] = Tidy(i, j)

\* C4 as amended: the tidy rows are ordered by nutrient first (in the order of
\* the list) and by aggregate row second.
C4_MetricThenRowOrder ==
    handler = "update_macronutrient_chart" =>
        /\ Len(fig) = Len(agg) * Len(macro_names)
        /\ \A i \in DOMAIN agg, j \in DOMAIN macro_names :
              fig[(j - 1) * Len(agg) + i] = Tidy(i, j)

\* Two aggregate rows: the first two tidy rows are their Fat rows, the third
\* is the Sugars row of the first.
C4_Witness ==
    /\ handler = "update_macronutrient_chart"
    /\ Len(agg) = 2
    /\ fig[1]["Nutrient"] = Cell("Fat") /\ fig[1]["Country"] = agg[1]["Country"]
    /\ fig[2]["Nutrient"] = Cell("Fat") /\ fig[2]["Country"] = agg[2]["Country"]
    /\ fig[3]["Nutrient"] = Cell("Sugars") /\ fig[3]["Country"] = agg[1]["Country"]

\* The NOVA groups that are columns of the percentage table.
PctColumns == IF agg = <<>> THEN {} ELSE DOMAIN agg[1].cols

\* C5: the reshape emits one tidy row per pair of an aggregate row and a
\* metric, with the value the aggregate row has for the metric, null included.
C5_ReshapeComplete ==
    /\ handler = "update_macronutrient_chart" =>
          /\ Len(fig) = Len(agg) * Len(macro_names)
          /\ \A i \in DOMAIN agg, j \in DOMAIN macro_names :
                LET hits == {p \in DOMAIN fig :
                                /\ fig[p]["Country"] = agg[i]["Country"]
                                /\ fig[p]["Nutrient"] = Cell(macro_names[j])}
                IN  /\ Cardinality(hits) = 1
                    /\ \A p \in hits :
                          fig[p]["Amount (g per 100g)"] = agg[i][macro_names[j]]
    /\ handler = "update_processing_by_country_chart" =>
          /\ Len(fig) = Len(agg) * Cardinality(PctColumns)
          /\ \A i \in DOMAIN agg, n \in PctColumns :
                LET hits == {p \in DOMAIN fig :
                                /\ fig[p].country_name = agg[i].country_name
                                /\ fig[p]["NOVA Group"] = Cell(n)}
                IN  /\ Cardinality(hits) = 1
                    /\ \A p \in hits : fig[p]["Percentage"] = agg[i].cols[n]

\* Two aggregate rows whose Salt mean is null: ten tidy rows, the null ones
\* among them.
C5_Witness ==
    /\ handler = "update_macronutrient_chart"
    /\ Len(agg) = 2
    /\ agg[1]["Salt"] = NaN
    /\ Len(fig) = 10
    /\ \E p \in DOMAIN fig :
          /\ fig[p]["Country"] = agg[1]["Country"]
          /\ fig[p]["Nutrient"] = Cell("Salt")
          /\ fig[p]["Amount (g per 100g)"] = NaN

-----------------------------------------------------------------------------
(* Properties of the mean. *)

RECURSIVE SumOver(_, _)
SumOver(P, col) ==
    IF P = {} THEN 0
    ELSE LET p == CHOOSE x \in P : TRUE
         IN  filtered_df[p][col][1] + SumOver(P \ {p}, col)

\* Column aggcol of the aggregate holds, for every country of the subset, the
\* mean of the non-null cells of column col, or null when there is none.
MeanOf(aggcol, col) ==
    \A q \in DOMAIN filtered_df :
        LET name == filtered_df[q].country_name
            P == {p \in DOMAIN filtered_df :
                    filtered_df[p].country_name = name /\ filtered_df[p][col] # NaN}
            G == {g \in DOMAIN agg : agg[g]["Country"] = name}
        IN  /\ Cardinality(G) = 1
            /\ \A g \in G :
                  IF P = {} THEN agg[g][aggcol] = NaN
                  ELSE /\ agg[g][aggcol] # NaN
                       /\ agg[g][aggcol][1].num * Cardinality(P)
                            = agg[g][aggcol][1].den * SumOver(P, col)

\* C6: every group of the subset has its row, and each mean is the mean of
\* the group's non-null values, null when the group has none.
C6_MeanNullPolicy ==
    /\ handler = "update_macronutrient_chart" =>
          \A j \in DOMAIN macro_names : MeanOf(macro_names[j], macro_columns[j])
    /\ handler = "update_nutrition_radar_chart" =>
          \A j \in DOMAIN categories : MeanOf(categories[j], radar_columns[j])
    /\ handler = "update_additives_chart" =>
          MeanOf("Average Number of Additives", "additives_n")

\* The subset is us 2, us 4, fr null: United States has mean 3 and France null.
C6_Witness ==
    /\ handler = "update_macronutrient_chart"
    /\ Len(filtered_df) = 3
    /\ filtered_df[1].country_code = Cell("us")
    /\ filtered_df[1].nutriments_sugars_100g = Cell(2)
    /\ filtered_df[2].country_code = Cell("us")
    /\ filtered_df[2].nutriments_sugars_100g = Cell(4)
    /\ filtered_df[3].country_code = Cell("fr")
    /\ filtered_df[3].nutriments_sugars_100g = NaN
    /\ \E g, h \in DOMAIN agg :
          /\ agg[g]["Country"] = Cell("United States")
          /\ agg[g]["Sugars"] = Cell([num |-> 3, den |-> 1])
          /\ agg[h]["Country"] = Cell("France")
          /\ agg[h]["Sugars"] = NaN

-----------------------------------------------------------------------------
(* Properties of the percentages by country and NOVA group. *)

\* The number of rows of the subset with a given display name.
CountryTotal(name) ==
    Cardinality({p \in DOMAIN filtered_df : filtered_df[p].country_name = Cell(name)})

\* C7 as stated: every country of the output has an entry of 0 for every
\* NOVA group from 1 to 4 that none of its rows has.
C7_ZeroFill ==
    handler = "update_processing_by_country_chart" =>
        \A g \in DOMAIN agg, n \in NovaMin..NovaMax :
            PairCount(agg[g].country_name[1], "nova_group", n) = 0 =>
                \E p \in DOMAIN fig :
                    /\ fig[p].country_name = agg[g].country_name
                    /\ fig[p]["NOVA Group"] = Cell(n)
                    /\ fig[p]["Percentage"] = Cell([num |-> 0, den |-> 1])

\* The sum of the percentages of the rows P of the figure, as a fraction.
RECURSIVE PctSum(_)
PctSum(P) ==
    IF P = {} THEN [num |-> 0, den |-> 1]
    ELSE LET p == CHOOSE x \in P : TRUE
             a == fig[p]["Percentage"][1]
             b == PctSum(P \ {p})
         IN  [num |-> a.num * b.den + b.num * a.den, den |-> a.den * b.den]

\* C8: a percentage is 100 times the number of the country's rows with the
\* NOVA group over the number of all rows of the country; it lies in [0, 100],
\* and a country's percentages add up to at most 100, to 100 exactly when
\* none of its rows lacks a NOVA group.
C8_PercentageNormalised ==
    handler = "update_processing_by_country_chart" =>
        \A p \in DOMAIN fig :
            LET name == fig[p].country_name[1]
                pct == fig[p]["Percentage"][1]
                mine == {q \in DOMAIN fig : fig[q].country_name = Cell(name)}
                total == PctSum(mine)
            IN  /\ CountryTotal(name) > 0
                /\ pct.num * CountryTotal(name)
                     = 100 * PairCount(name, "nova_group", fig[p]["NOVA Group"][1]) * pct.den
                /\ 0 <= pct.num /\ pct.num <= 100 * pct.den
                /\ total.num <= 100 * total.den
                /\ total.num = 100 * total.den
                     <=> \A q \in DOMAIN filtered_df :
                            filtered_df[q].country_name = Cell(name)
                                => filtered_df[q].nova_group # NaN

\* One country has a row without NOVA group and percentages that add up to
\* less than 100; another has none and percentages that add up to 100.
C8_Witness ==
    /\ handler = "update_processing_by_country_chart"
    /\ \E p, q \in DOMAIN fig :
          /\ fig[p].country_name # fig[q].country_name
          /\ fig[p]["Percentage"] = Cell([num |-> 50, den |-> 1])
          /\ \E r \in DOMAIN filtered_df :
                /\ filtered_df[r].country_name = fig[p].country_name
                /\ filtered_df[r].nova_group = NaN
          /\ fig[q]["Percentage"] = Cell([num |-> 100, den |-> 1])

-----------------------------------------------------------------------------
(* Algebra of the facet filter. *)

\* The mask the running callback computes for a row under its selection.
Mask(r) ==
    CASE handler = "update_nutrition_grade_chart" ->
             nutrition_grade_mask(r, sel.countries, sel.nova)
      [] handler = "update_macronutrient_chart" ->
             macronutrient_mask(r, sel.countries, sel.grades, sel.nova)
      [] handler = "update_nutrition_radar_chart" ->
             nutrition_radar_mask(r, sel.countries, sel.grades, sel.nova)
      [] handler = "update_nova_group_chart" ->
             nova_group_mask(r, sel.countries, sel.grades)
      [] handler = "update_additives_chart" ->
             additives_mask(r, sel.countries, sel.grades, sel.nova)
      [] handler = "update_gdp_vs_nutrition_chart" ->
             gdp_vs_nutrition_mask(r, sel.grades, sel.nova)
      [] handler = "update_processing_by_country_chart" ->
             processing_by_country_mask(r, sel.countries, sel.grades)

MaskHandlers ==
    {"update_nutrition_grade_chart", "update_macronutrient_chart",
     "update_nutrition_radar_chart", "update_nova_group_chart",
     "update_additives_chart", "update_gdp_vs_nutrition_chart",
     "update_processing_by_country_chart"}

\* C11: filtering the filtered subset again with the same selection gives the
\* filtered subset back, the same rows in the same order.
C11_FilterIdempotent ==
    handler \in MaskHandlers =>
        boolean_index(filtered_df,
                      [i \in DOMAIN filtered_df |-> Mask(filtered_df[i])]) = filtered_df

\* Two rows pass the macronutrient filter, so the second pass has rows to keep.
C11_Witness ==
    /\ handler = "update_macronutrient_chart"
    /\ Len(df) = 2
    /\ Len(filtered_df) = 2
    /\ filtered_df[1] # filtered_df[2]

\* C12: the filtered subset is a subsequence of the dataset: its rows are rows
\* of the dataset at strictly increasing positions, so surviving rows keep
\* their relative order and none appears more often than in the dataset.
C12_FilterSubsequence ==
    handler \in MaskHandlers =>
        \E f \in [DOMAIN filtered_df -> DOMAIN df] :
            /\ \A k \in DOMAIN filtered_df : filtered_df[k] = df[f[k]]
            /\ \A k, l \in DOMAIN filtered_df : k < l => f[k] < f[l]

\* The first and the third row survive and the row between them does not.
C12_Witness ==
    /\ handler = "update_macronutrient_chart"
    /\ Len(df) = 3
    /\ filtered_df = <<df[1], df[3]>>
    /\ df[1] # df[3]
    /\ df[2] \notin Rows(filtered_df)

-----------------------------------------------------------------------------
(* The shared data frame. *)

\* C13: once the server dispatches callbacks, no step changes the shared data
\* frame: its rows, their order, its columns and its cells stay as the load
\* left them, also when update_additives_vs_nutrition_chart adds the filled
\* ingredient count to its working subset.
C13_DatasetImmutable ==
    [][pc = "serving" => (df' = df /\ df_columns' = df_columns)]_vars

\* The scatter callback has filled a missing ingredient count in its subset,
\* and the shared frame has neither the new column nor the filled value.
C13_Witness ==
    /\ handler = "update_additives_vs_nutrition_chart"
    /\ \E k \in DOMAIN filtered_df :
          /\ "ingredients_count_filled" \in DOMAIN filtered_df[k]
          /\ isna(filtered_df[k].ingredients_count)
          /\ filtered_df[k].ingredients_count_filled = Cell(Frac(4, 1))
    /\ \A i \in DOMAIN df : "ingredients_count_filled" \notin DOMAIN df[i]
    /\ "ingredients_count_filled" \notin df_columns
    /\ \E i \in DOMAIN df : isna(df[i].ingredients_count)

-----------------------------------------------------------------------------
(* Callbacks that run side by side. *)

\* The data frame the load makes of the file.
Loaded ==
    LET with_gdp == AddColumn(source, "gdp_per_capita",
                        [i \in DOMAIN source |-> map_gdp(source[i].country_code[1])])
    IN  AddColumn(with_gdp, "country_name",
                  [i \in DOMAIN source |->
                      Cell(clean_country_name(source[i].country_code[1]))])

LoadedColumns == csv_columns \cup {"gdp_per_capita", "country_name"}

\* The figure a call returns when it is the only call that runs.
Alone(call) ==
    IF call.handler = "update_additives_vs_nutrition_chart"
    THEN additives_vs_figure(
             additives_vs_subset(Loaded, LoadedColumns, call.sel.countries, call.sel.nova),
             LoadedColumns)
    ELSE LET filtered == boolean_index(Loaded, [i \in DOMAIN Loaded |->
                 processing_by_country_mask(Loaded[i], call.sel.countries, call.sel.grades)])
         IN  add_nova_description(processing_melt(percentages(
                 unstack_fillna(filtered, "country_name", "nova_group"),
                 groupby_size(filtered, "country_name"))))

\* C14: a callback that runs interleaved with another one returns the figure
\* it returns for the same selection when it runs alone.
C14_InterleavingSafe ==
    \A w \in 1..MaxWorkers :
        calls[w].pc = "return" => (calls[w].raised = "none" /\ calls[w].fig = Alone(calls[w]))

\* A scatter call returns its plot, with a filled ingredient count, while a
\* processing call on the other thread is between its filter and its reshape.
C14_Witness ==
    \E w, v \in 1..MaxWorkers :
        /\ w # v
        /\ calls[w].pc = "return"
        /\ calls[w].filtered_df # <<>>
        /\ "ingredients_count_filled" \in DOMAIN calls[w].filtered_df[1]
        /\ calls[w].handler = "update_additives_vs_nutrition_chart"
        /\ calls[w].fig.data # <<>>
        /\ calls[v].pc = "line650"
        /\ calls[v].filtered_df # <<>>

-----------------------------------------------------------------------------
(* Validation of the selection. *)

InvalidNovaRange(r) ==
    \/ r[1] > r[2]
    \/ r[1] < NovaMin \/ r[1] > NovaMax
    \/ r[2] < NovaMin \/ r[2] > NovaMax

\* C15: a callback called with a NOVA range whose low bound exceeds its high
\* bound, or with a bound outside [1, 4], fails with InvalidSelectionError and
\* returns no chart.
C15_InvalidSelectionRejected ==
    (handler \in {"update_nutrition_grade_chart", "update_macronutrient_chart"}
        /\ InvalidNovaRange(sel.nova))
        => (raised = "InvalidSelectionError" /\ fig = <<>>)

-----------------------------------------------------------------------------
(* The load. *)

\* C16: a source that cannot be read, or that has no data row, makes the load
\* fail, and the process never gets to serve chart requests.
C16_EmptySourceNeverServes ==
    (~file.exists \/ source = <<>>) => pc # "serving"

RequiredColumns ==
    {"country_code", "nutrition_grade", "nova_group", "nutriments_fat_100g",
     "nutriments_sugars_100g", "nutriments_proteins_100g",
     "nutriments_carbohydrates_100g", "nutriments_salt_100g", "additives_n",
     "nutrition_score"}

\* C17: a source that lacks a required column makes the load fail before a
\* request is served, and no callback fails at request time over a column
\* that is absent.
C17_MissingColumnFailsLoad ==
    /\ ~(RequiredColumns \subseteq file.header) => pc # "serving"
    /\ handler # "idle" => raised # "KeyError"

TableNames ==
    [us |-> "United States", fr |-> "France", uk |-> "United Kingdom",
     de |-> "Germany", es |-> "Spain", it |-> "Italy", cn |-> "China",
     jp |-> "Japan", in |-> "India", br |-> "Brazil", au |-> "Australia"]

HasCountryNames == df # <<>> /\ "country_name" \in df_columns

\* C18: the country name of a row is the table entry of its code for the 11
\* codes of the table and the upper-cased code for any other code; the
\* derivation does not fail when every code is present, and no name is missing.
C18_CountryDisplayName ==
    /\ \A code \in DOMAIN TableNames : clean_country_name(code) = TableNames[code]
    /\ HasCountryNames =>
          \A i \in DOMAIN df :
              /\ ~isna(df[i].country_name)
              /\ df[i].country_code[1] \in DOMAIN TableNames
                    => df[i].country_name = Cell(TableNames[df[i].country_code[1]])
              /\ df[i].country_code[1] \in {"ca", "CA"} => df[i].country_name = Cell("CA")
    /\ raised = "AttributeError" => \E i \in DOMAIN df : isna(df[i].country_code)

\* The served frame names a row of the table and a row that falls back to its
\* upper-cased code.
C18_Witness ==
    /\ pc = "serving"
    /\ \E i, j \in DOMAIN df :
          /\ df[i].country_code = Cell("in") /\ df[i].country_name = Cell("India")
          /\ df[j].country_code = Cell("ca") /\ df[j].country_name = Cell("CA")

TableGdp ==
    [us |-> 65000, fr |-> 38000, uk |-> 40000, de |-> 45000, es |-> 27000,
     it |-> 31000, cn |-> 10000, jp |-> 40000, in |-> 2000, br |-> 8000,
     au |-> 55000]

\* C19: the GDP per capita of a row is the table value of its code when the
\* table has the code and missing, never 0, when it has not; the GDP chart
\* has rows only for countries of the table.
C19_GdpLookup ==
    /\ \A code \in DOMAIN TableGdp : map_gdp(code) = Cell(TableGdp[code])
    /\ (df # <<>> /\ "gdp_per_capita" \in df_columns) =>
          \A i \in DOMAIN df :
              IF ~isna(df[i].country_code) /\ df[i].country_code[1] \in DOMAIN TableGdp
              THEN df[i].gdp_per_capita = Cell(TableGdp[df[i].country_code[1]])
              ELSE isna(df[i].gdp_per_capita)
    /\ (handler = "update_gdp_vs_nutrition_chart" /\ raised = "none") =>
          \A k \in DOMAIN fig :
              \E code \in DOMAIN TableGdp :
                  /\ fig[k].country_name = Cell(TableNames[code])
                  /\ fig[k].gdp_per_capita = Cell(TableGdp[code])

\* The GDP chart has the one row of India, and leaves out a row of "ca" that
\* passes the grade and NOVA filters.
C19_Witness ==
    /\ handler = "update_gdp_vs_nutrition_chart"
    /\ Len(fig) = 1
    /\ fig[1].country_name = Cell("India")
    /\ \E i \in DOMAIN df :
          /\ df[i].country_code = Cell("ca")
          /\ isna(df[i].gdp_per_capita)
          /\ InGrades(df[i], sel) /\ InNovaRange(df[i], sel)

-----------------------------------------------------------------------------
(* The mock dashboard. *)

\* The figure a mock callback returns for the selection the page starts with.
MockDefault ==
    CASE handler = "app.update_nutrition_grade_chart" ->
             mock_grade_data({"us", "fr", "uk"}, "all", <<NovaMin, NovaMax>>)
      [] handler = "app.update_macronutrient_chart" ->
             mock_macronutrient_data({"us", "fr", "uk"}, "all", <<NovaMin, NovaMax>>)
      [] handler = "app.update_radar_chart" ->
             mock_radar_data({"us", "fr", "uk"}, "compare", <<NovaMin, NovaMax>>)
      [] handler = "app.update_flow_chart" ->
             mock_flow_data({"us", "fr", "uk"}, "all")

\* C20: each of the four callbacks of the mock dashboard returns, for every
\* selection of countries, category and NOVA range, the chart data it returns
\* for the default selection.
C20_MockIgnoresInputs ==
    handler # "idle" => fig = MockDefault

\* The grade chart of the mock page, called with no country and a narrowed
\* NOVA range, returns the five hardcoded counts.
C20_Witness ==
    /\ handler = "app.update_nutrition_grade_chart"
    /\ sel.countries = {}
    /\ sel.nova = <<NovaMax, NovaMax>>
    /\ fig.x = <<32, 45, 28, 18, 7>>

-----------------------------------------------------------------------------
(* The order of the load and the callbacks. *)

DerivedColumns == {"gdp_per_capita", "country_name"}

\* C21: a callback runs only once the server is serving, and the data frame
\* it reads then has every row of the file with both derived columns,
\* gdp_per_capita and country_name, written in full.
C21_LoadBeforeRead ==
    handler # "idle" =>
        /\ pc = "serving"
        /\ DerivedColumns \subseteq df_columns
        /\ Len(df) = Len(source)
        /\ \A i \in DOMAIN df : DerivedColumns \subseteq DOMAIN df[i]

\* The grade chart has counted the rows of a two-row file, each of which
\* carries its GDP and its country name.
C21_Witness ==
    /\ handler = "update_nutrition_grade_chart"
    /\ raised = "none"
    /\ Len(df) = 2
    /\ fig # <<>>
    /\ \A i \in DOMAIN df : ~isna(df[i].country_name) /\ "gdp_per_capita" \in DOMAIN df[i]

-----------------------------------------------------------------------------
(* The facets each chart is wired to. *)

\* The facet that is not among the Inputs of a callback.
IgnoredFacet ==
    [update_nutrition_grade_chart |-> "grades",
     update_additives_vs_nutrition_chart |-> "grades",
     update_nova_group_chart |-> "nova",
     update_processing_by_country_chart |-> "nova",
     update_gdp_vs_nutrition_chart |-> "countries",
     update_continent_comparison_chart |-> "countries"]

\* The page agrees with the selection of the call on the two other facets.
SameButIgnored(page) ==
    \A f \in {"countries", "grades", "nova"} \ {IgnoredFacet[handler]} : page[f] = sel[f]

\* C22: the figure of a callback with two Inputs is the figure the callback
\* gives for every page that differs from the selection of the call in the
\* third facet only: the grade selection for the grade chart and the scatter
\* plot, the NOVA range for the NOVA chart and the processing chart, the
\* country selection for the GDP chart and the continent chart.
C22_IgnoredFacet ==
    (handler \in DOMAIN IgnoredFacet /\ raised = "none") =>
        \A page \in pages : SameButIgnored(page) => callback(handler, df, page) = fig

\* The page has no grade selected, and the grade chart counts rows of two
\* grades all the same.
C22_Witness ==
    /\ handler = "update_nutrition_grade_chart"
    /\ "grades" \in DOMAIN sel
    /\ sel.grades = {}
    /\ Len(fig) = 2
    /\ fig[1].nutrition_grade # fig[2].nutrition_grade

-----------------------------------------------------------------------------
(* The placeholders of the scatter plot. *)

PlottedColumns == {"additives_n", "nutrition_score"}

\* Row i of df passes the country filter, the NOVA filter if df has a
\* nova_group column, and has both plotted values.
Survives(i) ==
    /\ ~isna(df[i].country_code)
    /\ df[i].country_code[1] \in sel.countries
    /\ "nova_group" \in df_columns =>
           /\ ~isna(df[i].nova_group)
           /\ df[i].nova_group[1] >= sel.nova[1]
           /\ df[i].nova_group[1] <= sel.nova[2]
    /\ ~isna(df[i].additives_n)
    /\ ~isna(df[i].nutrition_score)

Survivors == {i \in DOMAIN df : Survives(i)}

\* C23: update_additives_vs_nutrition_chart returns the empty figure titled
\* "Required data columns are missing for this visualization" if df lacks
\* additives_n or nutrition_score; otherwise the empty figure titled "No data
\* available with current filters" if no row passes the filters and has both
\* values; otherwise the scatter chart with one point per such row, each with
\* an additive count and a nutrition score.
C23_Placeholders ==
    (handler = "update_additives_vs_nutrition_chart" /\ raised = "none") =>
        IF ~(PlottedColumns \subseteq df_columns)
        THEN /\ fig.title = "Required data columns are missing for this visualization"
             /\ fig.data = <<>>
        ELSE IF Survivors = {}
        THEN /\ fig.title = "No data available with current filters"
             /\ fig.data = <<>>
        ELSE /\ fig.title = "Relationship Between Additives and Nutrition Grade"
             /\ Len(fig.data) = Cardinality(Survivors)
             /\ \A k \in DOMAIN fig.data :
                    ~isna(fig.data[k].additives_n) /\ ~isna(fig.data[k].nutrition_score)

\* A scatter chart of one point from two selected rows, of which one has no
\* additive count.
C23_Witness ==
    /\ handler = "update_additives_vs_nutrition_chart"
    /\ raised = "none"
    /\ Len(df) = 2
    /\ PlottedColumns \subseteq df_columns
    /\ \A i \in DOMAIN df : df[i].country_code[1] \in sel.countries
    /\ \E i \in DOMAIN df : isna(df[i].additives_n)
    /\ fig.title = "Relationship Between Additives and Nutrition Grade"
    /\ Len(fig.data) = 1

\* The two empty figures are returned as well.
C23_MissingColumnsSeen ==
    /\ handler = "update_additives_vs_nutrition_chart"
    /\ raised = "none"
    /\ fig.title = "Required data columns are missing for this visualization"

C23_NoDataSeen ==
    /\ handler = "update_additives_vs_nutrition_chart"
    /\ raised = "none"
    /\ fig.title = "No data available with current filters"
    /\ sel.countries # {}

====
